---- MODULE Spec2Model ----
(***************************************************************************)
(* Build recipes of conan-center-index, modelled as state machines.        *)
(*                                                                         *)
(* The openssl/3.x.x recipe (src/recipes/openssl/3.x.x/conanfile.py) is    *)
(* modelled method by method, in the order in which the package manager    *)
(* calls the methods: config_options, configure, requirements, validate,   *)
(* generate, build, package, package_info.  The files a method writes are  *)
(* kept by folder, a folder being a function from file name to content.    *)
(* The external tools (Configure, make) are a choice of exit code and the  *)
(* files they are known to leave.  Strings are TLA+ strings handled        *)
(* character by character (Len, SubSeq, Head, Tail and \o apply to them),  *)
(* so that glob matching, quoting and separator replacement are computed   *)
(* as Python computes them.                                                *)
(*                                                                         *)
(* The libxcrypt recipe (src/recipes/libxcrypt/all/conanfile.py) is        *)
(* modelled from config_options to generate, the gtest recipe              *)
(* (src/recipes/gtest/all/conanfile.py) from config_options to             *)
(* package_info, followed by generate of its test package, and the tk      *)
(* recipe (src/recipes/tk/all/conanfile.py) from config_options to         *)
(* package.  The test package of openssl runs once the openssl package is  *)
(* made.  A behaviour is the run of one recipe; the state of the other     *)
(* recipes says that they are not run.                                     *)
(***************************************************************************)
EXTENDS Integers, Sequences, FiniteSets, TLC

VARIABLES
    settings,            \* self.settings: os, arch, compiler, build_type, ...
    settings_build,      \* self.settings_build: os and arch of the build machine
    conf,                \* self.conf: the configuration entries the recipe reads
    os_environ,          \* os.environ: the environment variables that are set
    profile_options,     \* option values given by the user (profile, command line)
    options,             \* self.options: name -> value; a deleted option is absent
    options_order,       \* the names in the order the options' dict holds them
    zlib_package,        \* what the dependency graph holds for a required zlib
    folders,             \* package_folder and build_folder
    requires,            \* the requirements declared by requirements()
    build_requires,      \* the requirements declared by build_requirements()
    pc,                  \* the recipe method the package manager calls next
    error,               \* the exception that ended the build, or None
    generators_folder,   \* the files of self.generators_folder: name -> content
    source_folder,       \* the files of self.source_folder: name -> content
    commands,            \* the command lines given to self.run, in order
    package_folder,      \* the files of self.package_folder, "/" between names
    cpp_info,            \* self.cpp_info as package_info() fills it
    libxcrypt,           \* the libxcrypt recipe: pc, settings, options, arguments
    test_package,        \* the test package of openssl: pc, files, commands, error
    gtest,               \* the gtest recipe: pc, version, settings, options, package
    gtest_test_package,  \* the test package of gtest: pc, files, error
    tk                   \* the tk recipe: pc, settings, options, build record, commands

vars == <<settings, settings_build, conf, os_environ, profile_options, options,
          options_order, zlib_package, folders, requires, build_requires, pc, error,
          generators_folder, source_folder, commands, package_folder, cpp_info,
          libxcrypt, test_package, gtest, gtest_test_package, tk>>

\* Python's None ("%s" % None and str(None) give this text).
None == "None"

-----------------------------------------------------------------------------
(* Strings *)

Char(s, i) == SubSeq(s, i, i)

\* The least element of a non-empty set of numbers.
Least(S) == CHOOSE i \in S : \A k \in S : i <= k

\* Whether text old stands in s at position i.
starts_at(s, i, old) ==
    i + Len(old) - 1 <= Len(s) /\ SubSeq(s, i, i + Len(old) - 1) = old

\* sub in s, for two texts.
occurs_in(s, sub) == \E i \in 1..Len(s) : starts_at(s, i, sub)

\* fnmatch.fnmatch(name, pat), from position i of name and j of pat on, for
\* patterns made of literal characters and "*" (any run of characters, "-"
\* included): a run of literal characters has to stand in name, a "*" stands
\* for the characters up to any later position.  None of the recipe's
\* patterns holds "?" or "[".  os.path.normcase is applied to both sides
\* alike, and no two names of the model differ in case only.
RECURSIVE fnmatch_at(_, _, _, _)
fnmatch_at(name, pat, i, j) ==
    IF j > Len(pat) THEN i > Len(name)
    ELSE IF Char(pat, j) = "*"
    THEN \E after \in i..(Len(name) + 1) : fnmatch_at(name, pat, after, j + 1)
    ELSE LET stars == {k \in j..Len(pat) : Char(pat, k) = "*"}
             stop == IF stars = {} THEN Len(pat) + 1 ELSE Least(stars)
             literal == SubSeq(pat, j, stop - 1)
         IN  /\ starts_at(name, i, Char(pat, j))
             /\ starts_at(name, i, literal)
             /\ fnmatch_at(name, pat, i + Len(literal), stop)

\* A match that takes the pattern for the name itself.
fnmatch_literal(name, pat) == name = pat

fnmatch(name, pat) == fnmatch_at(name, pat, 1, 1)

\* str.replace(old, new), old not empty: the occurrences from left to right,
\* none of them overlapping the one before.
RECURSIVE replace(_, _, _)
replace(s, old, new) ==
    LET found == {i \in 1..Len(s) : starts_at(s, i, old)} IN
    IF found = {} THEN s
    ELSE LET i == Least(found) IN
         SubSeq(s, 1, i - 1) \o new
         \o replace(SubSeq(s, i + Len(old), Len(s)), old, new)

\* '"%s"' % s
quoted(s) == "\"" \o s \o "\""

-----------------------------------------------------------------------------
(* Options *)

\* OpenSSLConan.options, in declaration order.
option_names == <<
    "shared", "fPIC", "enable_weak_ssl_ciphers", "386", "capieng_dialog",
    "enable_capieng", "no_aria", "no_asm", "no_async", "no_blake2", "no_bf",
    "no_camellia", "no_chacha", "no_cms", "no_comp", "no_ct", "no_cast",
    "no_deprecated", "no_des", "no_dgram", "no_dh", "no_dsa", "no_dso", "no_ec",
    "no_ecdh", "no_ecdsa", "no_engine", "no_filenames", "no_fips", "no_gost",
    "no_idea", "no_legacy", "no_md2", "no_md4", "no_mdc2", "no_ocsp", "no_pinshared",
    "no_rc2", "no_rc4", "no_rc5", "no_rfc3779", "no_rmd160", "no_sm2", "no_sm3",
    "no_sm4", "no_srp", "no_srtp", "no_sse2", "no_ssl", "no_stdio", "no_seed",
    "no_sock", "no_ssl3", "no_threads", "no_tls1", "no_ts", "no_whirlpool", "no_zlib",
    "openssldir" >>

OptionNameSet == {option_names[i] : i \in 1..Len(option_names)}

\* default_options: every option False, then fPIC True and openssldir None.
default_options ==
    [n \in OptionNameSet |->
        IF n = "fPIC" THEN "True" ELSE IF n = "openssldir" THEN None ELSE "False"]

\* The place of a character in the order of the character codes, for the
\* characters of the option names.
CodeOrder == "0123456789ABCDEFGHIJKLMNOPQRSTUVWXYZ_abcdefghijklmnopqrstuvwxyz"

ord(c) == CHOOSE i \in 1..Len(CodeOrder) : Char(CodeOrder, i) = c

\* a < b for two strings, as Python compares them: by the first character
\* in which they differ, a proper prefix being the smaller.
str_less(a, b) ==
    LET shorter == IF Len(a) < Len(b) THEN Len(a) ELSE Len(b)
        differ == {i \in 1..shorter : Char(a, i) # Char(b, i)}
    IN  IF differ = {} THEN Len(a) < Len(b)
        ELSE ord(Char(a, Least(differ))) < ord(Char(b, Least(differ)))

\* The number of option names that sort ahead of each name.
option_rank ==
    [n \in OptionNameSet |-> Cardinality({m \in OptionNameSet : str_less(m, n)})]

\* sorted(names): the option names in ascending order.
sorted_option_names ==
    [r \in 1..Len(option_names) |->
        CHOOSE n \in OptionNameSet : option_rank[n] = r - 1]

\* The order of the names once the deleted options are gone.
without_deleted(order, opts) == SelectSeq(order, LAMBDA n : n \in DOMAIN opts)

\* Truth value of an option value or of a configuration entry: Conan holds
\* option values as text, and False, None, 0, off and the empty text are false.
truthy(v) == v \notin {"False", "false", "None", "none", "0", "off", ""}

\* get_safe that gives False, whatever the default, for an absent option.
get_safe_absent_is_false(name, default) ==
    IF name \in DOMAIN options THEN options[name] ELSE "False"

\* self.options.get_safe(name, default)
get_safe(name, default) == IF name \in DOMAIN options THEN options[name] ELSE default

\* A deletion that leaves the option where it is.
del_option_keeps(opts, name) == opts

\* del self.options.<name>
del_option(opts, name) == [n \in (DOMAIN opts) \ {name} |-> opts[n]]

-----------------------------------------------------------------------------
(* Target resolution *)

\* The dict literal of _targets as the ordered list of its (pattern, target)
\* items; no key occurs twice.
targets_dict(is_cygwin) ==
    <<
       <<"Linux-x86-clang", "linux-x86-clang">>,
       <<"Linux-x86_64-clang", "linux-x86_64-clang">>,
       <<"Linux-x86-*", "linux-x86">>,
       <<"Linux-x86_64-*", "linux-x86_64">>,
       <<"Linux-armv4-*", "linux-armv4">>,
       <<"Linux-armv4i-*", "linux-armv4">>,
       <<"Linux-armv5el-*", "linux-armv4">>,
       <<"Linux-armv5hf-*", "linux-armv4">>,
       <<"Linux-armv6-*", "linux-armv4">>,
       <<"Linux-armv7-*", "linux-armv4">>,
       <<"Linux-armv7hf-*", "linux-armv4">>,
       <<"Linux-armv7s-*", "linux-armv4">>,
       <<"Linux-armv7k-*", "linux-armv4">>,
       <<"Linux-armv8-*", "linux-aarch64">>,
       <<"Linux-armv8.3-*", "linux-aarch64">>,
       <<"Linux-armv8-32-*", "linux-arm64ilp32">>,
       <<"Linux-mips-*", "linux-mips32">>,
       <<"Linux-mips64-*", "linux-mips64">>,
       <<"Linux-ppc32-*", "linux-ppc32">>,
       <<"Linux-ppc32le-*", "linux-pcc32">>,
       <<"Linux-ppc32be-*", "linux-ppc32">>,
       <<"Linux-ppc64-*", "linux-ppc64">>,
       <<"Linux-ppc64le-*", "linux-ppc64le">>,
       <<"Linux-pcc64be-*", "linux-pcc64">>,
       <<"Linux-s390x-*", "linux64-s390x">>,
       <<"Linux-e2k-*", "linux-generic64">>,
       <<"Linux-sparc-*", "linux-sparcv8">>,
       <<"Linux-sparcv9-*", "linux64-sparcv9">>,
       <<"Linux-*-*", "linux-generic32">>,
       <<"Macos-x86-*", "darwin-i386-cc">>,
       <<"Macos-x86_64-*", "darwin64-x86_64-cc">>,
       <<"Macos-ppc32-*", "darwin-ppc-cc">>,
       <<"Macos-ppc32be-*", "darwin-ppc-cc">>,
       <<"Macos-ppc64-*", "darwin64-ppc-cc">>,
       <<"Macos-ppc64be-*", "darwin64-ppc-cc">>,
       <<"Macos-armv8-*", "darwin64-arm64-cc">>,
       <<"Macos-*-*", "darwin-common">>,
       <<"iOS-x86_64-*", "darwin64-x86_64-cc">>,
       <<"iOS-*-*", "iphoneos-cross">>,
       <<"watchOS-*-*", "iphoneos-cross">>,
       <<"tvOS-*-*", "iphoneos-cross">>,
       <<"Android-armv7-*", "linux-generic32">>,
       <<"Android-armv7hf-*", "linux-generic32">>,
       <<"Android-armv8-*", "linux-generic64">>,
       <<"Android-x86-*", "linux-x86-clang">>,
       <<"Android-x86_64-*", "linux-x86_64-clang">>,
       <<"Android-mips-*", "linux-generic32">>,
       <<"Android-mips64-*", "linux-generic64">>,
       <<"Android-*-*", "linux-generic32">>,
       <<"Windows-x86-gcc", IF is_cygwin THEN "Cygwin-x86" ELSE "mingw">>,
       <<"Windows-x86_64-gcc", IF is_cygwin THEN "Cygwin-x86_64" ELSE "mingw64">>,
       <<"Windows-*-gcc", IF is_cygwin THEN "Cygwin-common" ELSE "mingw-common">>,
       <<"Windows-ia64-Visual Studio", "VC-WIN64I">>,
       <<"Windows-x86-Visual Studio", "VC-WIN32">>,
       <<"Windows-x86_64-Visual Studio", "VC-WIN64A">>,
       <<"Windows-armv7-Visual Studio", "VC-WIN32-ARM">>,
       <<"Windows-armv8-Visual Studio", "VC-WIN64-ARM">>,
       <<"Windows-*-Visual Studio", "VC-noCE-common">>,
       <<"Windows-ia64-clang", "VC-WIN64I">>,
       <<"Windows-x86-clang", "VC-WIN32">>,
       <<"Windows-x86_64-clang", "VC-WIN64A">>,
       <<"Windows-armv7-clang", "VC-WIN32-ARM">>,
       <<"Windows-armv8-clang", "VC-WIN64-ARM">>,
       <<"Windows-*-clang", "VC-noCE-common">>,
       <<"WindowsStore-x86-*", "VC-WIN32-UWP">>,
       <<"WindowsStore-x86_64-*", "VC-WIN64A-UWP">>,
       <<"WindowsStore-armv7-*", "VC-WIN32-ARM-UWP">>,
       <<"WindowsStore-armv8-*", "VC-WIN64-ARM-UWP">>,
       <<"WindowsStore-*-*", "VC-WIN32-ONECORE">>,
       <<"WindowsCE-*-*", "VC-CE">>,
       <<"SunOS-x86-gcc", "solaris-x86-gcc">>,
       <<"SunOS-x86_64-gcc", "solaris64-x86_64-gcc">>,
       <<"SunOS-sparc-gcc", "solaris-sparcv8-gcc">>,
       <<"SunOS-sparcv9-gcc", "solaris64-sparcv9-gcc">>,
       <<"SunOS-x86-suncc", "solaris-x86-cc">>,
       <<"SunOS-x86_64-suncc", "solaris64-x86_64-cc">>,
       <<"SunOS-sparc-suncc", "solaris-sparcv8-cc">>,
       <<"SunOS-sparcv9-suncc", "solaris64-sparcv9-cc">>,
       <<"SunOS-*-*", "solaris-common">>,
       <<"*BSD-x86-*", "BSD-x86">>,
       <<"*BSD-x86_64-*", "BSD-x86_64">>,
       <<"*BSD-ia64-*", "BSD-ia64">>,
       <<"*BSD-sparc-*", "BSD-sparcv8">>,
       <<"*BSD-sparcv9-*", "BSD-sparcv9">>,
       <<"*BSD-armv8-*", "BSD-generic64">>,
       <<"*BSD-mips64-*", "BSD-generic64">>,
       <<"*BSD-ppc64-*", "BSD-generic64">>,
       <<"*BSD-ppc64le-*", "BSD-generic64">>,
       <<"*BSD-ppc64be-*", "BSD-generic64">>,
       <<"AIX-ppc32-gcc", "aix-gcc">>,
       <<"AIX-ppc64-gcc", "aix64-gcc">>,
       <<"AIX-pcc32-*", "aix-cc">>,
       <<"AIX-ppc64-*", "aix64-cc">>,
       <<"AIX-*-*", "aix-common">>,
       <<"*BSD-*-*", "BSD-generic32">>,
       <<"Emscripten-*-*", "cc">>,
       <<"Neutrino-*-*", "BASE_unix">>
    >>

targets_dict_cygwin == targets_dict(TRUE)
targets_dict_other == targets_dict(FALSE)

\* OpenSSLConan._targets
_targets ==
    LET is_cygwin == settings.os_subsystem = "cygwin" IN
    IF is_cygwin THEN targets_dict_cygwin ELSE targets_dict_other

\* A Python value used as a condition: None and the empty text are false.
py_bool(v) == v \notin {None, ""}

\* dict.get(key, None)
dict_get(d, key) == IF key \in DOMAIN d THEN d[key] ELSE None

\* A scan in which the last matching item wins.
last_match(table, query) ==
    LET matching == SelectSeq(table, LAMBDA item : fnmatch(query, item[1])) IN
    IF Len(matching) = 0 THEN None ELSE matching[Len(matching)][2]

\* A scan that falls back to a generic target when no item matches.
first_match_or_generic(table, query) ==
    LET matching == SelectSeq(table, LAMBDA item : fnmatch(query, item[1])) IN
    IF Len(matching) = 0 THEN "linux-generic32" ELSE matching[1][2]

\* next((table[i] for i in table if fnmatch.fnmatch(query, i)), None): the
\* targets of the items whose pattern matches, in the order of the table,
\* and the first of them.
first_match(table, query) ==
    LET matching == SelectSeq(table, LAMBDA item : fnmatch(query, item[1])) IN
    IF Len(matching) = 0 THEN None ELSE matching[1][2]

\* The query string with the compiler as the settings name it.
ancestor_query_as_named ==
    settings.os \o "-" \o settings.arch \o "-" \o settings.compiler

\* The query string of _ancestor_target; "msvc" is matched as "Visual Studio".
ancestor_query ==
    LET compiler == IF settings.compiler = "msvc" THEN "Visual Studio"
                    ELSE settings.compiler
    IN  settings.os \o "-" \o settings.arch \o "-" \o compiler

\* A resolution that looks at the table only.
_ancestor_target_table_only ==
    LET ancestor == first_match(_targets, ancestor_query) IN
    IF ~py_bool(ancestor)
    THEN [raised |-> "ConanInvalidConfiguration: Unsupported configuration ("
                     \o settings.os \o "/" \o settings.arch \o "/"
                     \o settings.compiler \o ").",
          value |-> None]
    ELSE [raised |-> None, value |-> ancestor]

\* OpenSSLConan._ancestor_target: [raised, value]; raised is the exception
\* raised, with the first line of its message, or None when value is
\* returned.
_ancestor_target ==
    IF py_bool(conf.user_openssl_configuration)
    THEN [raised |-> None, value |-> conf.user_openssl_configuration]
    ELSE LET ancestor == first_match(_targets, ancestor_query) IN
         IF ~py_bool(ancestor)
         THEN [raised |-> "ConanInvalidConfiguration: Unsupported configuration ("
                          \o settings.os \o "/" \o settings.arch \o "/"
                          \o settings.compiler \o ").",
               value |-> None]
         ELSE [raised |-> None, value |-> ancestor]

\* conan.tools.microsoft.is_msvc
is_msvc == settings.compiler \in {"Visual Studio", "msvc"}

_is_clangcl == settings.compiler = "clang" /\ settings.os = "Windows"

_is_mingw == settings.os = "Windows" /\ settings.compiler = "gcc"

\* nmake for the Microsoft compilers only.
_use_nmake_without_clangcl == is_msvc

_use_nmake == _is_clangcl \/ is_msvc

\* conan.tools.build.cross_building(self, skip_x64_x86=True)
cross_building_skip_x64_x86 ==
    LET same_os_32_on_64 ==
            /\ settings_build.os = settings.os
            /\ \/ settings_build.arch = "x86_64" /\ settings.arch = "x86"
               \/ settings_build.arch = "sparcv9" /\ settings.arch = "sparc"
               \/ settings_build.arch = "ppc64" /\ settings.arch = "ppc32"
    IN  /\ ~same_os_32_on_64
        /\ (settings_build.os # settings.os \/ settings_build.arch # settings.arch)

\* OpenSSLConan.win_bash
win_bash ==
    /\ settings_build.os = "Windows"
    /\ ~_use_nmake
    /\ (_is_mingw \/ cross_building_skip_x64_x86)

\* A target name that is the outcome of the resolution.
_target_resolved ==
    IF py_bool(conf.user_openssl_configuration) THEN conf.user_openssl_configuration
    ELSE first_match(_targets, ancestor_query)

\* OpenSSLConan._target
_target ==
    LET target == "conan-" \o settings.build_type \o "-" \o settings.os \o "-"
                  \o settings.arch \o "-" \o settings.compiler \o "-"
                  \o settings.compiler_version
        vc == IF _use_nmake THEN "VC-" \o target ELSE target
    IN  IF _is_mingw THEN "mingw-" \o vc ELSE vc

\* A scheme that depends on the architecture alone.
_perlasm_scheme_any_os ==
    dict_get([armv7 |-> "void", armv8 |-> "linux64", mips |-> "o32",
              mips64 |-> "64", x86 |-> "android", x86_64 |-> "elf"],
             settings.arch)

\* OpenSSLConan._perlasm_scheme
_perlasm_scheme ==
    IF settings.os \in {"iOS", "watchOS", "tvOS"}
    THEN dict_get([armv7 |-> "ios32", armv7s |-> "ios32", armv8 |-> "ios64",
                   armv8_32 |-> "ios64", armv7k |-> "ios32"]
                  @@ ("armv8.3" :> "ios64"),
                  settings.arch)
    ELSE IF settings.os = "Android"
    THEN dict_get([armv7 |-> "void", armv8 |-> "linux64", mips |-> "o32",
                   mips64 |-> "64", x86 |-> "android", x86_64 |-> "elf"],
                  settings.arch)
    ELSE None

\* The dict literal of _asm_target: architecture -> implementation identifier.
asm_targets ==
    [x86 |-> IF settings.os = "Android" THEN "x86_asm" ELSE None,
     x86_64 |-> IF settings.os = "Android" THEN "x86_64_asm" ELSE None,
     armv5el |-> "armv4_asm", armv5hf |-> "armv4_asm", armv6 |-> "armv4_asm",
     armv7 |-> "armv4_asm", armv7hf |-> "armv4_asm", armv7s |-> "armv4_asm",
     armv7k |-> "armv4_asm", armv8 |-> "aarch64_asm", armv8_32 |-> "aarch64_asm",
     mips |-> "mips32_asm", mips64 |-> "mips64_asm", sparc |-> "sparcv8_asm",
     sparcv9 |-> "sparcv9_asm", ia64 |-> "ia64_asm", ppc32be |-> "ppc32_asm",
     ppc32 |-> "ppc32_asm", ppc64le |-> "ppc64_asm", ppc64 |-> "ppc64_asm",
     s390 |-> "s390x_asm", s390x |-> "s390x_asm"]
    @@ ("armv8.3" :> "aarch64_asm")

\* OpenSSLConan._asm_target: the dict is looked up with str(self.settings.os);
\* outside the four OS families the property returns None.
_asm_target ==
    IF settings.os \in {"Android", "iOS", "watchOS", "tvOS"}
    THEN dict_get(asm_targets, settings.os)
    ELSE None

-----------------------------------------------------------------------------
(* Paths *)

UpperCase == "ABCDEFGHIJKLMNOPQRSTUVWXYZ"
LowerCase == "abcdefghijklmnopqrstuvwxyz"
is_letter(c) ==
    \E k \in 1..Len(UpperCase) : c \in {Char(UpperCase, k), Char(LowerCase, k)}

\* str.lower(), one half of the text after the other.
RECURSIVE lower(_)
lower(s) ==
    IF Len(s) = 0 THEN ""
    ELSE IF Len(s) = 1
    THEN LET up == {k \in 1..Len(UpperCase) : Char(UpperCase, k) = s} IN
         IF up = {} THEN s ELSE Char(LowerCase, Least(up))
    ELSE LET half == Len(s) \div 2 IN
         lower(SubSeq(s, 1, half)) \o lower(SubSeq(s, half + 1, Len(s)))

\* re.sub(r'([a-z]):\\', r'/\1/', path, flags=IGNORECASE)
RECURSIVE drive_to_root(_)
drive_to_root(s) ==
    LET found == {i \in 1..Len(s) : is_letter(Char(s, i)) /\ starts_at(s, i + 1, ":\\")}
    IN  IF found = {} THEN s
        ELSE LET i == Least(found) IN
             SubSeq(s, 1, i - 1) \o "/" \o Char(s, i) \o "/"
             \o drive_to_root(SubSeq(s, i + 3, Len(s)))

\* conan.tools.microsoft.unix_path for the msys2 subsystem the recipe builds
\* with: a path that is already a Unix path is kept, another one has its
\* drive turned into a root directory, its backslashes into slashes, and is
\* put in lower case.
unix_path(path) ==
    IF starts_at(path, 1, "/") THEN path
    ELSE lower(replace(drive_to_root(path), "\\", "/"))

\* os.path.sep of the machine the recipe runs on.
os_sep == IF settings_build.os = "Windows" THEN "\\" ELSE "/"

\* os.path.join(a, b) for a relative b and an a without trailing separator.
path_join(a, b) == a \o os_sep \o b

\* The index of the last separator of path, 0 when it has none.
last_sep(path) ==
    LET at == {i \in 1..Len(path) : Char(path, i) = os_sep} IN
    IF at = {} THEN 0 ELSE CHOOSE i \in at : \A k \in at : k <= i

\* os.path.basename, and os.path.dirname for a path below the root.
basename(path) == SubSeq(path, last_sep(path) + 1, Len(path))
dirname(path) == SubSeq(path, 1, last_sep(path) - 1)

-----------------------------------------------------------------------------
(* Dependencies *)

\* What the dependency graph holds for a required strawberryperl.
strawberryperl_package == [bindirs |-> <<"C:\\strawberry\\perl\\bin">>]

\* The dependencies when zlib is among them whatever the graph holds.
dependencies_with_any_zlib ==
    IF "zlib/1.2.11" \in requires
    THEN "zlib" :> [includedirs |-> <<"/z/include">>, libdirs |-> <<"/z/lib">>,
                    libs |-> <<"z">>, shared |-> "False"]
    ELSE <<>>

\* self.dependencies: the packages of the declared requirements, by name.
dependencies ==
    (IF "zlib/1.2.11" \in requires /\ DOMAIN zlib_package # {}
     THEN "zlib" :> zlib_package ELSE <<>>)
    @@ (IF "strawberryperl/5.30.0.1" \in build_requires
        THEN "strawberryperl" :> strawberryperl_package ELSE <<>>)

\* self.dependencies.items(): (requirement, package) pairs.
dependencies_items == {<<name, dependencies[name]>> : name \in DOMAIN dependencies}

-----------------------------------------------------------------------------
(* Argument assembly *)

\* OpenSSLConan._get_default_openssl_dir
_get_default_openssl_dir ==
    IF settings.os = "Linux" THEN "/etc/ssl"
    ELSE path_join(IF py_bool(folders.package_folder) THEN folders.package_folder
                   ELSE ".",
                   "res")

\* A skip list that names the option no_zlib.
skipped_option_names_with_no_zlib ==
    {"shared", "fPIC", "openssldir", "capieng_dialog", "enable_capieng", "no_zlib",
     "no_fips"}

\* The skipped names but for "shared".
skipped_option_names_without_shared ==
    {"fPIC", "openssldir", "capieng_dialog", "enable_capieng", "zlib", "no_fips"}

\* The skipped names but for "no_fips".
skipped_option_names_without_no_fips ==
    {"shared", "fPIC", "openssldir", "capieng_dialog", "enable_capieng", "zlib"}

\* The option names the loop at the end of _get_configure_args skips.
skipped_option_names ==
    {"shared", "fPIC", "openssldir", "capieng_dialog", "enable_capieng", "zlib",
     "no_fips"}

\* The names of the options in the order the options' dict holds them.
options_items_as_inserted == options_order

\* self.options.items(), the names of it: the package manager yields the
\* options that were not deleted sorted by name, whatever the order in
\* which the dict holds them.
options_items == without_deleted(sorted_option_names, options)

\* for option_name, value in self.options.items(): ... args.append(...)
activated_options ==
    LET activated ==
            SelectSeq(options_items,
                      LAMBDA option_name :
                          /\ truthy(get_safe(option_name, "False"))
                          /\ option_name \notin skipped_option_names)
    IN  [i \in 1..Len(activated) |-> replace(activated[i], "_", "-")]

\* The zlib arguments with the paths as the dependency gives them.
zlib_args_native_separators ==
    LET zlib_info == dependencies["zlib"]
        lib_path == IF settings.os = "Windows"
                    THEN zlib_info.libdirs[1] \o "/" \o zlib_info.libs[1] \o ".lib"
                    ELSE zlib_info.libdirs[1]
    IN  <<IF truthy(zlib_info.shared) THEN "zlib-dynamic" ELSE "zlib",
          "--with-zlib-include=" \o quoted(zlib_info.includedirs[1]),
          "--with-zlib-lib=" \o quoted(lib_path)>>

\* The arguments of the "if not self.options.no_zlib" block, for a zlib that
\* is among the dependencies.
zlib_args ==
    LET zlib_info == dependencies["zlib"]
        include_path0 == zlib_info.includedirs[1]
        lib_path0 == IF settings.os = "Windows"
                     THEN zlib_info.libdirs[1] \o "/" \o zlib_info.libs[1] \o ".lib"
                     ELSE zlib_info.libdirs[1]
        include_path == IF settings_build.os = "Windows"
                        THEN replace(include_path0, "\\", "/") ELSE include_path0
        lib_path == IF settings_build.os = "Windows"
                    THEN replace(lib_path0, "\\", "/") ELSE lib_path0
    IN  <<IF truthy(zlib_info.shared) THEN "zlib-dynamic" ELSE "zlib",
          "--with-zlib-include=" \o quoted(include_path),
          "--with-zlib-lib=" \o quoted(lib_path)>>

\* The list in which the threads flag stands ahead of the linkage flag.
args_threads_first(perl, prefix, openssldir) ==
    <<quoted(_target),
      IF truthy(options.no_threads) THEN "no-threads" ELSE "threads",
      IF truthy(options.shared) THEN "shared" ELSE "no-shared",
      "--prefix=" \o quoted(prefix),
      "--libdir=lib",
      "--openssldir=" \o quoted(openssldir),
      "no-unit-test",
      "PERL=" \o perl,
      "no-tests",
      IF settings.build_type = "Debug" THEN "--debug" ELSE "--release">>

\* args = [...]: the list _get_configure_args starts from.
args_list(perl, prefix, openssldir) ==
    <<quoted(_target),
      IF truthy(options.shared) THEN "shared" ELSE "no-shared",
      "--prefix=" \o quoted(prefix),
      "--libdir=lib",
      "--openssldir=" \o quoted(openssldir),
      "no-unit-test",
      IF truthy(options.no_threads) THEN "no-threads" ELSE "threads",
      "PERL=" \o perl,
      "no-tests",
      IF settings.build_type = "Debug" THEN "--debug" ELSE "--release">>

\* OpenSSLConan._get_configure_args(perl): [raised, value].
_get_configure_args(perl) ==
    LET openssldir0 == IF truthy(options.openssldir) THEN options.openssldir
                       ELSE _get_default_openssl_dir
        dest_folder == IF py_bool(folders.package_folder) THEN folders.package_folder
                       ELSE folders.build_folder
        prefix == IF win_bash THEN unix_path(dest_folder) ELSE dest_folder
        openssldir == IF win_bash THEN unix_path(openssldir0) ELSE openssldir0
        args == args_list(perl, prefix, openssldir)
        android == IF settings.os = "Android"
                   THEN <<" -D__ANDROID_API__=" \o settings.os_api_level>> ELSE <<>>
        emscripten == IF settings.os = "Emscripten"
                      THEN <<"-D__STDC_NO_ATOMICS__=1">> ELSE <<>>
        windows == IF settings.os = "Windows"
                   THEN (IF truthy(options.enable_capieng)
                         THEN <<"enable-capieng">> ELSE <<>>)
                        \o (IF truthy(options.capieng_dialog)
                            THEN <<"-DOPENSSL_CAPIENG_DIALOG=1">> ELSE <<>>)
                   ELSE <<IF truthy(get_safe("fPIC", "True")) THEN "-fPIC"
                          ELSE "no-pic">>
        fips == <<IF truthy(get_safe("no_fips", "True")) THEN "no-fips"
                  ELSE "enable-fips">>
        neutrino == IF settings.os = "Neutrino"
                    THEN <<"no-asm -lsocket -latomic">> ELSE <<>>
        head == args \o android \o emscripten \o windows \o fips \o neutrino
    IN  IF ~truthy(options.no_zlib) /\ "zlib" \notin DOMAIN dependencies
        THEN [raised |-> "KeyError: 'zlib'", value |-> None]
        ELSE [raised |-> None,
              value |-> head
                        \o (IF ~truthy(options.no_zlib) THEN zlib_args ELSE <<>>)
                        \o activated_options]

-----------------------------------------------------------------------------
(* The generated files *)

\* sep.join(seq), one half of the list after the other.
RECURSIVE join(_, _)
join(sep, seq) ==
    IF Len(seq) = 0 THEN ""
    ELSE IF Len(seq) = 1 THEN seq[1]
    ELSE LET half == Len(seq) \div 2 IN
         join(sep, SubSeq(seq, 1, half)) \o sep
         \o join(sep, SubSeq(seq, half + 1, Len(seq)))

\* json.dumps of a text: quotes and backslashes are escaped.
json_string(s) == quoted(replace(replace(s, "\\", "\\\\"), "\"", "\\\""))

\* json.dumps({"configure_args": configure_args, "perl_exe": perl})
json_dumps(build_data) ==
    "{\"configure_args\": ["
    \o join(", ", [i \in 1..Len(build_data.configure_args) |->
                      json_string(build_data.configure_args[i])])
    \o "], \"perl_exe\": " \o json_string(build_data.perl_exe) \o "}"

\* The number of backslashes that stand immediately before position i.
RECURSIVE backslashes_before(_, _)
backslashes_before(text, i) ==
    IF i > 1 /\ Char(text, i - 1) = "\\" THEN 1 + backslashes_before(text, i - 1)
    ELSE 0

\* A JSON string taken as it stands in the file, escapes and all.
json_unescape_verbatim(s) == s

\* The text of a JSON string without its quotes, its escapes undone: the
\* character after a backslash stands for itself (json.dumps escaped nothing
\* but quotes and backslashes).
RECURSIVE json_unescape(_)
json_unescape(s) ==
    LET found == {i \in 1..Len(s) : Char(s, i) = "\\"} IN
    IF found = {} THEN s
    ELSE LET i == Least(found) IN
         SubSeq(s, 1, i - 1) \o Char(s, i + 1)
         \o json_unescape(SubSeq(s, i + 2, Len(s)))

\* The strings between the given quotes, from a position on: the first quote
\* opens a string, the next one closes it.
RECURSIVE strings_from(_, _, _)
strings_from(text, quotes, from) ==
    LET rest == {q \in quotes : q >= from} IN
    IF rest = {} THEN <<>>
    ELSE LET open == Least(rest)
             close == Least({q \in rest : q > open})
         IN  <<json_unescape(SubSeq(text, open + 1, close - 1))>>
             \o strings_from(text, quotes, close + 1)

\* The strings of a JSON text in the order in which they stand in it; a
\* quote opens or closes a string unless an odd number of backslashes stands
\* before it.
json_strings(text) ==
    LET quotes == {i \in 1..Len(text) :
                      Char(text, i) = "\"" /\ backslashes_before(text, i) % 2 = 0}
    IN  strings_from(text, quotes, 1)

\* json.loads of the build record: the key "configure_args", the strings of
\* its list, the key "perl_exe", its string.
json_loads(text) ==
    LET strings == json_strings(text) IN
    [configure_args |-> SubSeq(strings, 2, Len(strings) - 2),
     perl_exe |-> strings[Len(strings)]]

\* OpenSSLConan._tool(env_name, apple_name)
_tool(env_name, apple_name) ==
    IF env_name \in DOMAIN os_environ THEN os_environ[env_name]
    ELSE IF settings.compiler = "apple-clang" THEN apple_name
    ELSE None

\* OpenSSLConan._runtime
_runtime ==
    IF settings.compiler = "msvc"
    THEN "M" \o (IF settings.compiler_runtime = "static" THEN "T" ELSE "D")
             \o (IF settings.compiler_runtime_type = "Debug" THEN "d" ELSE "")
    ELSE settings.compiler_runtime

\* OpenSSLConan._replace_runtime_in_file, on the text of the file: the loop
\* over ("MDd", "MTd", "MD", "MT") from its k-th element on.
RECURSIVE _replace_runtime_in_file(_, _)
_replace_runtime_in_file(text, k) ==
    LET flags == <<"MDd", "MTd", "MD", "MT">> IN
    IF k > Len(flags) THEN text
    ELSE LET e == flags[k]
             spaced == replace(text, "/" \o e \o " ", "/" \o _runtime \o " ")
             closed == replace(spaced, "/" \o e \o "\"", "/" \o _runtime \o "\"")
         IN  _replace_runtime_in_file(closed, k + 1)

\* OpenSSLConan._create_targets: [raised, value]; value is the content of
\* Configurations/20-conan.conf, one field for each entry of the template
\* that the recipe computes (the flags of the Autotools toolchain are not
\* among them).
_create_targets ==
    LET cc == _tool("CC", "cc")
        cxx == _tool("CXX", "cxx")
        ar == _tool("AR", "ar")
        ranlib == _tool("RANLIB", "ranlib")
        perlasm_scheme == IF py_bool(_perlasm_scheme)
                          THEN "perlasm_scheme => " \o quoted(_perlasm_scheme) \o ","
                          ELSE ""
        includedirs == dependencies["zlib"].includedirs
        includes0 == IF ~truthy(options.no_zlib)
                     THEN join(", ", [i \in 1..Len(includedirs) |->
                                         quoted(includedirs[i])])
                     ELSE ""
        includes == IF settings.os = "Windows" THEN replace(includes0, "\\", "/")
                    ELSE includes0
        ancestor_target == _ancestor_target
        ancestor == IF py_bool(_asm_target)
                    THEN "[ " \o quoted(ancestor_target.value) \o ", asm("
                         \o quoted(_asm_target) \o ") ]"
                    ELSE "[ " \o quoted(ancestor_target.value) \o " ]"
        neutrino == settings.os = "Neutrino"
    IN  IF ~truthy(options.no_zlib) /\ "zlib" \notin DOMAIN dependencies
        THEN [raised |-> "KeyError: 'zlib'", value |-> None]
        ELSE IF py_bool(ancestor_target.raised)
        THEN [raised |-> ancestor_target.raised, value |-> None]
        ELSE [raised |-> None,
              value |->
                [target |-> _target,
                 inherit_from |-> ancestor,
                 includes |-> includes,
                 shared_target |-> IF neutrino /\ truthy(options.shared)
                                   THEN "shared_target  => \"gnu-shared\"," ELSE "",
                 shared_cflag |-> IF neutrino /\ truthy(get_safe("fPIC", "True"))
                                  THEN "shared_cflag => \"-fPIC\"," ELSE "",
                 shared_extension |->
                    IF neutrino /\ truthy(options.shared)
                    THEN "shared_extension => \".so.\\$(SHLIB_VERSION_NUMBER)\","
                    ELSE "",
                 cc |-> IF py_bool(cc) THEN "cc => " \o quoted(cc) \o "," ELSE "",
                 cxx |-> IF py_bool(cxx) THEN "cxx => " \o quoted(cxx) \o "," ELSE "",
                 ar |-> IF py_bool(ar) THEN "ar => " \o quoted(ar) \o "," ELSE "",
                 ranlib |-> IF py_bool(ranlib)
                            THEN "ranlib => " \o quoted(ranlib) \o "," ELSE "",
                 perlasm_scheme |-> perlasm_scheme]]

-----------------------------------------------------------------------------
(* The recipe methods *)

\* The body of config_options; no statement of its try block raises.
config_options(opts) ==
    LET by_os == IF settings.os # "Windows"
                 THEN del_option(del_option(opts, "capieng_dialog"), "enable_capieng")
                 ELSE del_option(opts, "fPIC")
    IN  IF settings.os = "Emscripten"
        THEN [by_os EXCEPT !["no_asm"] = "True", !["no_threads"] = "True",
                           !["no_stdio"] = "True"]
        ELSE by_os

\* The package manager then gives the options the recipe still has the
\* values of the profile.
assign_profile(opts) ==
    [n \in DOMAIN opts |->
        IF n \in DOMAIN profile_options THEN profile_options[n] ELSE opts[n]]

ConfigOptions ==
    /\ pc = "config_options"
    /\ options' = assign_profile(config_options(options))
    /\ options_order' = without_deleted(options_order, options')
    /\ pc' = "configure"
    /\ UNCHANGED <<settings, settings_build, conf, os_environ, profile_options,
                   zlib_package, folders, requires, build_requires, error,
                   generators_folder, source_folder, commands, package_folder,
                   cpp_info, libxcrypt, test_package, gtest,
                   gtest_test_package, tk>>

\* configure: deleting an option or a sub-setting that does not exist raises,
\* and the except clause drops the statements that follow in the try block.
Configure ==
    /\ pc = "configure"
    /\ LET fPIC_raises == truthy(options.shared) /\ "fPIC" \notin DOMAIN options
           libcxx_raises == "libcxx" \notin settings.compiler_subsettings
       IN  /\ options' = IF truthy(options.shared) THEN del_option(options, "fPIC")
                         ELSE options
           /\ options_order' = without_deleted(options_order, options')
           /\ settings' =
                IF fPIC_raises THEN settings
                ELSE IF libcxx_raises THEN settings
                ELSE [settings EXCEPT !.compiler_subsettings = @ \ {"libcxx", "cppstd"}]
    /\ pc' = "requirements"
    /\ UNCHANGED <<settings_build, conf, os_environ, profile_options,
                   zlib_package, folders, requires, build_requires, error,
                   generators_folder, source_folder, commands, package_folder,
                   cpp_info, libxcrypt, test_package, gtest,
                   gtest_test_package, tk>>

Requirements ==
    /\ pc = "requirements"
    /\ requires' = IF ~truthy(options.no_zlib) THEN requires \cup {"zlib/1.2.11"}
                   ELSE requires
    /\ pc' = "build_requirements"
    /\ UNCHANGED <<settings, settings_build, conf, os_environ, profile_options,
                   options, options_order, zlib_package, folders,
                   build_requires, error, generators_folder, source_folder,
                   commands, package_folder, cpp_info, libxcrypt, test_package,
                   gtest, gtest_test_package, tk>>

\* tools.files.which(name): no nasm stands on the PATH of the build machines.
which(name) == None

\* build_requirements(): Strawberry Perl and nasm for a Windows build
\* machine, msys2 for a build in a bash without a configured path.
BuildRequirements ==
    /\ pc = "build_requirements"
    /\ build_requires' =
         build_requires
         \cup (IF settings_build.os = "Windows" /\ ~win_bash
               THEN {"strawberryperl/5.30.0.1"} ELSE {})
         \cup (IF /\ settings_build.os = "Windows"
                  /\ ~truthy(options.no_asm)
                  /\ ~py_bool(which("nasm"))
               THEN {"nasm/2.15.05"} ELSE {})
         \cup (IF win_bash /\ ~py_bool(conf.tools_microsoft_bash_path)
               THEN {"msys2/cci.latest"} ELSE {})
    /\ pc' = "validate"
    /\ UNCHANGED <<settings, settings_build, conf, os_environ, profile_options,
                   options, options_order, zlib_package, folders, requires,
                   error, generators_folder, source_folder, commands,
                   package_folder, cpp_info, libxcrypt, test_package, gtest,
                   gtest_test_package, tk>>

Validate ==
    /\ pc = "validate"
    /\ IF /\ settings.os = "Emscripten"
          /\ ~(/\ truthy(options.no_asm)
               /\ truthy(options.no_threads)
               /\ truthy(options.no_stdio))
       THEN /\ error' = "ConanInvalidConfiguration: os=Emscripten requires "
                       \o "openssl:{no_asm,no_threads,no_stdio}=True"
            /\ pc' = "failed"
       ELSE /\ error' = error
            /\ pc' = "generate"
    /\ UNCHANGED <<settings, settings_build, conf, os_environ, profile_options,
                   options, options_order, zlib_package, folders, requires,
                   build_requires, generators_folder, source_folder, commands,
                   package_folder, cpp_info, libxcrypt, test_package, gtest,
                   gtest_test_package, tk>>

\* The interpreter generate() chooses.
generate_perl ==
    IF /\ settings_build.os = "Windows"
       /\ ~win_bash
       /\ "strawberryperl" \in dependencies_items
    THEN path_join(dependencies["strawberryperl"].bindirs[1], "perl.exe")
    ELSE "perl"

\* The variables of the environment script "conanopensslbuild".
generate_env(build_data) ==
    LET sdk_path == conf.tools_apple_sdk_path
        perl_env == IF py_bool(build_data.perl_exe)
                    THEN "PERL" :> build_data.perl_exe ELSE <<>>
    IN  IF settings.compiler = "apple-clang" /\ py_bool(sdk_path)
        THEN perl_env @@ ("CROSS_SDK" :> basename(sdk_path))
                      @@ ("CROSS_TOP" :> dirname(dirname(sdk_path)))
        ELSE perl_env

\* generate(): the build record is saved before the target configuration is
\* created; an exception leaves what was written before it.  The arguments
\* and the target configuration are computed once; _create_targets is not
\* reached when _get_configure_args raises.
Generate ==
    /\ pc = "generate"
    /\ \E perl \in {generate_perl} :
       \E configure_args \in {_get_configure_args(perl)} :
       \E targets \in {IF py_bool(configure_args.raised) THEN configure_args
                       ELSE _create_targets} :
       LET build_data == [configure_args |-> configure_args.value, perl_exe |-> perl]
           saved == ("openssl_build.json" :> json_dumps(build_data))
                    @@ (IF _use_nmake THEN "conanvcvars.bat" :> "" ELSE <<>>)
                    @@ ("conanopensslbuild" :> generate_env(build_data))
                    @@ generators_folder
           main_conf == "Configurations/10-main.conf"
           runtime == IF _use_nmake
                      THEN main_conf :> _replace_runtime_in_file(source_folder[main_conf], 1)
                      ELSE <<>>
           pdb == IF _is_clangcl THEN "ossl_static.pdb" :> "" ELSE <<>>
       IN  IF py_bool(configure_args.raised)
           THEN /\ error' = configure_args.raised
                /\ pc' = "failed"
                /\ UNCHANGED <<generators_folder, source_folder>>
           ELSE IF py_bool(targets.raised)
           THEN /\ error' = targets.raised
                /\ pc' = "failed"
                /\ generators_folder' = saved
                /\ UNCHANGED source_folder
           ELSE /\ error' = error
                /\ pc' = "build"
                /\ generators_folder' = saved
                /\ source_folder' =
                     pdb @@ runtime
                     @@ ("Configurations/20-conan.conf" :> targets.value)
                     @@ source_folder
    /\ UNCHANGED <<settings, settings_build, conf, os_environ, profile_options,
                   options, options_order, zlib_package, folders, requires,
                   build_requires, commands, package_folder, cpp_info,
                   libxcrypt, test_package, gtest, gtest_test_package, tk>>

\* OpenSSLConan._make_program: [raised, value].
_make_program ==
    IF _use_nmake THEN [raised |-> None, value |-> "nmake"]
    ELSE IF ~py_bool(conf.tools_gnu_make_program)
    THEN [raised |-> "Exception: could not find \"make\" executable. "
                     \o "please set \"tools.gnu:make_program\" config",
          value |-> None]
    ELSE [raised |-> None,
          value |-> IF win_bash THEN unix_path(conf.tools_gnu_make_program)
                    ELSE conf.tools_gnu_make_program]

\* The command line of OpenSSLConan._run_make(targets, parallel=...), without
\* a makefile: [raised, value].
_run_make(targets, parallel) ==
    LET make_program == _make_program
        jobs == IF py_bool(conf.tools_build_jobs) THEN conf.tools_build_jobs ELSE "1"
        j == IF _use_nmake THEN <<>>
             ELSE <<IF parallel THEN "-j" \o jobs ELSE "-j1">>
    IN  IF py_bool(make_program.raised) THEN make_program
        ELSE [raised |-> None,
              value |-> join(" ", <<make_program.value>> \o targets \o j)]

\* The exit codes of an external tool: success and one failure.
ExitCodes == {0, 1}

\* The exception of self.run for a command that exits with 1.
run_error(command) == "ConanException: Error 1 while executing " \o command

\* The name of the fips provider the build of OpenSSL leaves in providers/,
\* which is the name package() looks for.
fips_module ==
    IF settings.os = "Macos" THEN "fips.dylib"
    ELSE IF settings.os = "Windows" THEN "fips.dll"
    ELSE "fips.so"

\* What make leaves in the source folder: the fips provider, when Configure
\* was given enable-fips.
made_files(configure_args) ==
    IF \E i \in 1..Len(configure_args) : configure_args[i] = "enable-fips"
    THEN ("providers/" \o fips_module) :> ""
    ELSE <<>>

\* A build() that runs make whatever Configure's exit code is.
BuildKeepsGoing ==
    /\ pc = "build"
    /\ \E data \in {json_loads(generators_folder["openssl_build.json"])} :
       \E configure \in {data.perl_exe \o " ./Configure "
                         \o join(" ", data.configure_args)} :
       \E make \in {_run_make(<<>>, TRUE)} :
       \E configure_exit \in ExitCodes, make_exit \in ExitCodes :
          /\ commands' = commands \o <<configure, make.value>>
          /\ error' = IF configure_exit # 0 THEN run_error(configure)
                      ELSE IF make_exit # 0 THEN run_error(make.value)
                      ELSE error
          /\ pc' = IF configure_exit # 0 \/ make_exit # 0 THEN "failed" ELSE "package"
          /\ source_folder' = made_files(data.configure_args) @@ source_folder
    /\ UNCHANGED <<settings, settings_build, conf, os_environ, profile_options,
                   options, options_order, zlib_package, folders, requires,
                   build_requires, generators_folder, package_folder, cpp_info,
                   libxcrypt, test_package, gtest, gtest_test_package, tk>>

\* build(): _configure() reads the build record back and runs Configure,
\* _make() runs make; a command that fails ends the build.  The record is
\* read once, the exit codes are the tools' choice.
Build ==
    /\ pc = "build"
    /\ \E data \in {json_loads(generators_folder["openssl_build.json"])} :
       \E configure \in {data.perl_exe \o " ./Configure "
                         \o join(" ", data.configure_args)} :
       \E make \in {_run_make(<<>>, TRUE)} :
       \E configure_exit \in ExitCodes, make_exit \in ExitCodes :
             IF configure_exit # 0
             THEN /\ commands' = commands \o <<configure>>
                  /\ error' = run_error(configure)
                  /\ pc' = "failed"
                  /\ UNCHANGED source_folder
             ELSE IF py_bool(make.raised)
             THEN /\ commands' = commands \o <<configure>>
                  /\ error' = make.raised
                  /\ pc' = "failed"
                  /\ UNCHANGED source_folder
             ELSE IF make_exit # 0
             THEN /\ commands' = commands \o <<configure, make.value>>
                  /\ error' = run_error(make.value)
                  /\ pc' = "failed"
                  /\ UNCHANGED source_folder
             ELSE /\ commands' = commands \o <<configure, make.value>>
                  /\ error' = error
                  /\ pc' = "package"
                  /\ source_folder' = made_files(data.configure_args) @@ source_folder
    /\ UNCHANGED <<settings, settings_build, conf, os_environ, profile_options,
                   options, options_order, zlib_package, folders, requires,
                   build_requires, generators_folder, package_folder, cpp_info,
                   libxcrypt, test_package, gtest, gtest_test_package, tk>>

\* A package() that leaves the files as the install left them.
packaged_files_as_installed(files) == files

\* s.endswith(suffix)
endswith(s, suffix) ==
    /\ Len(s) >= Len(suffix)
    /\ SubSeq(s, Len(s) - Len(suffix) + 1, Len(s)) = suffix

\* The files "make install_sw" leaves in the package folder: headers, the
\* libraries of the kind the toolchain produces, with make the pkg-config
\* files and with nmake, which installs none, debug information.
installed_files ==
    {"include/openssl/ssl.h"}
    \cup (IF _use_nmake THEN {}
          ELSE {"lib/pkgconfig/openssl.pc", "lib/pkgconfig/libssl.pc"})
    \cup (IF _use_nmake
          THEN {"lib/libssl.lib", "lib/libcrypto.lib"}
               \cup (IF truthy(options.shared)
                     THEN {"bin/libssl-3.dll", "bin/libcrypto-3.dll",
                           "bin/libssl-3.pdb", "bin/libcrypto-3.pdb"}
                     ELSE {"lib/ossl_static.pdb"})
          ELSE IF _is_mingw
          THEN {"lib/libssl.a", "lib/libcrypto.a"}
               \cup (IF truthy(options.shared)
                     THEN {"lib/libssl.dll.a", "lib/libcrypto.dll.a",
                           "bin/libssl-3-x64.dll", "bin/libcrypto-3-x64.dll"}
                     ELSE {})
          ELSE {"lib/libssl.a", "lib/libcrypto.a"}
               \cup (IF truthy(options.shared)
                     THEN (IF settings.os = "Macos"
                           THEN {"lib/libssl.3.dylib", "lib/libcrypto.3.dylib"}
                           ELSE {"lib/libssl.so.3", "lib/libcrypto.so.3"})
                     ELSE {}))

\* OpenSSLConan._module_subfolder
_module_subfolder == path_join("lib", "cmake")

\* OpenSSLConan._module_file_rel_path
_module_file_rel_path ==
    path_join(_module_subfolder, "conan-official-openssl-variables.cmake")

\* The files of package() after a successful install, step by step.
packaged_files(files) ==
    LET no_pdb == {f \in files : ~fnmatch(f, "*.pdb")}
        renamed == IF _use_nmake /\ settings.build_type = "Debug"
                   THEN (no_pdb \ {"lib/libssl.lib", "lib/libcrypto.lib"})
                        \cup {"lib/libssld.lib", "lib/libcryptod.lib"}
                   ELSE no_pdb
        in_lib(f) == /\ starts_at(f, 1, "lib/")
                     /\ \A i \in 5..Len(f) : Char(f, i) # "/"
        no_static == IF truthy(options.shared)
                     THEN {f \in renamed :
                             ~(/\ in_lib(f)
                               /\ ~(_is_mingw /\ endswith(f, ".dll.a"))
                               /\ endswith(f, ".a"))}
                     ELSE renamed
        provider == "providers/" \o fips_module
        fips == IF ~truthy(options.no_fips) /\ provider \in DOMAIN source_folder
                THEN {"lib/ossl-modules/" \o fips_module}
                ELSE {}
        no_pkgconfig == {f \in no_static \cup fips : ~starts_at(f, 1, "lib/pkgconfig/")}
    IN  no_pkgconfig \cup {replace(_module_file_rel_path, "\\", "/")}

\* package(): the licenses are copied, make installs, and the package folder
\* is put in order; a failing install ends the build with what was copied.
Package ==
    /\ pc = "package"
    /\ \E install_exit \in ExitCodes :
         LET licenses == {"licenses/" \o f :
                            f \in {g \in DOMAIN source_folder : fnmatch(g, "*LICENSE*")}}
             install == _run_make(<<"install_sw">>, FALSE)
         IN  IF py_bool(install.raised)
             THEN /\ commands' = commands
                  /\ error' = install.raised
                  /\ pc' = "failed"
                  /\ package_folder' = package_folder \cup licenses
             ELSE IF install_exit # 0
             THEN /\ commands' = commands \o <<install.value>>
                  /\ error' = run_error(install.value)
                  /\ pc' = "failed"
                  /\ package_folder' = package_folder \cup licenses
             ELSE /\ commands' = commands \o <<install.value>>
                  /\ error' = error
                  /\ pc' = "package_info"
                  /\ package_folder' =
                       packaged_files(package_folder \cup licenses \cup installed_files)
    /\ UNCHANGED <<settings, settings_build, conf, os_environ, profile_options,
                   options, options_order, zlib_package, folders, requires,
                   build_requires, generators_folder, source_folder, cpp_info,
                   libxcrypt, test_package, gtest, gtest_test_package, tk>>

\* package_info(): the two components of cpp_info.
PackageInfo ==
    /\ pc = "package_info"
    /\ LET libsuffix == IF settings.build_type = "Debug" THEN "d" ELSE ""
           linux == settings.os = "Linux"
           threads == linux /\ ~truthy(options.no_threads)
           common == [builddirs |-> <<_module_subfolder>>,
                      cmake_build_modules |-> <<_module_file_rel_path>>,
                      libdirs |-> <<"lib">>,
                      includedirs |-> <<"include">>]
       IN  cpp_info' =
             [cmake_file_name |-> "OpenSSL",
              cmake_find_mode |-> "both",
              pkg_config_name |-> "openssl",
              ssl |->
                common @@
                [libs |-> IF _use_nmake THEN <<"libssl" \o libsuffix>> ELSE <<"ssl">>,
                 requires |-> <<"crypto">>,
                 system_libs |->
                    IF linux
                    THEN <<"dl">> \o (IF threads THEN <<"pthread">> ELSE <<>>)
                    ELSE IF settings.os = "Neutrino" THEN <<"atomic">>
                    ELSE <<>>,
                 cmake_target_name |-> "OpenSSL::SSL",
                 pkg_config_name |-> "libssl"],
              crypto |->
                common @@
                [libs |-> IF _use_nmake THEN <<"libcrypto" \o libsuffix>>
                          ELSE <<"crypto">>,
                 requires |-> IF ~truthy(options.no_zlib) THEN <<"zlib::zlib">>
                              ELSE <<>>,
                 system_libs |->
                    IF settings.os = "Windows"
                    THEN <<"crypt32", "ws2_32", "advapi32", "user32">>
                    ELSE IF linux
                    THEN <<"dl", "rt">> \o (IF threads THEN <<"pthread">> ELSE <<>>)
                    ELSE IF settings.os = "Neutrino" THEN <<"atomic">>
                    ELSE <<>>,
                 cmake_target_name |-> "OpenSSL::Crypto",
                 pkg_config_name |-> "libcrypto"]]
    /\ pc' = "done"
    /\ UNCHANGED <<settings, settings_build, conf, os_environ, profile_options,
                   options, options_order, zlib_package, folders, requires,
                   build_requires, error, generators_folder, source_folder,
                   commands, package_folder, libxcrypt, test_package, gtest,
                   gtest_test_package, tk>>

-----------------------------------------------------------------------------
(* The libxcrypt recipe *)

\* LibxcryptConan.options with default_options: name -> value.
libxcrypt_default_options == [shared |-> "False", fPIC |-> "True"]

\* The recipe when it is not run.
LibxcryptNotRun ==
    [pc |-> "not_run", settings |-> <<>>, profile_options |-> <<>>,
     options |-> <<>>, configure_args |-> <<>>, error |-> None]

\* The values of the profile for the options the recipe still has.
libxcrypt_assign_profile(opts, profile) ==
    [n \in DOMAIN opts |-> IF n \in DOMAIN profile THEN profile[n] ELSE opts[n]]

\* LibxcryptConan.config_options, then the values of the profile.  Deleting
\* a sub-setting of the compiler that does not exist is not an error.
LibxcryptConfigOptions ==
    /\ libxcrypt.pc = "config_options"
    /\ libxcrypt' =
         [libxcrypt EXCEPT
            !.options = libxcrypt_assign_profile(
                            IF libxcrypt.settings.os = "Windows"
                            THEN del_option(@, "fPIC") ELSE @,
                            libxcrypt.profile_options),
            !.settings = [@ EXCEPT !.compiler_subsettings = @ \ {"libcxx", "cppstd"}],
            !.pc = "configure"]
    /\ UNCHANGED <<settings, settings_build, conf, os_environ, profile_options,
                   options, options_order, zlib_package, folders, requires,
                   build_requires, pc, error, generators_folder, source_folder,
                   commands, package_folder, cpp_info, test_package, gtest,
                   gtest_test_package, tk>>

\* LibxcryptConan.configure: Visual Studio is refused; deleting fPIC where
\* config_options has deleted it already is ignored by the package manager
\* of one major version and raises with the other.
LibxcryptConfigure ==
    /\ libxcrypt.pc = "configure"
    /\ \E raises \in BOOLEAN :
       libxcrypt' =
         IF libxcrypt.settings.compiler = "Visual Studio"
         THEN [libxcrypt EXCEPT
                 !.error = "ConanInvalidConfiguration: libxcrypt does not support "
                           \o "Visual Studio",
                 !.pc = "failed"]
         ELSE IF ~truthy(libxcrypt.options.shared)
         THEN [libxcrypt EXCEPT !.pc = "generate"]
         ELSE IF "fPIC" \notin DOMAIN libxcrypt.options /\ raises
         THEN [libxcrypt EXCEPT
                 !.error = "ConanException: option 'fPIC' doesn't exist",
                 !.pc = "failed"]
         ELSE [libxcrypt EXCEPT !.options = del_option(@, "fPIC"),
                                !.pc = "generate"]
    /\ UNCHANGED <<settings, settings_build, conf, os_environ, profile_options,
                   options, options_order, zlib_package, folders, requires,
                   build_requires, pc, error, generators_folder, source_folder,
                   commands, package_folder, cpp_info, test_package, gtest,
                   gtest_test_package, tk>>

\* The conf_args of LibxcryptConan.generate.
libxcrypt_conf_args(opts) ==
    <<"--disable-werror">>
    \o (IF truthy(opts.shared) THEN <<"--enable-shared", "--disable-static">>
        ELSE <<"--disable-shared", "--enable-static">>)

\* LibxcryptConan.generate: the toolchain's configure_args, empty when the
\* toolchain is made, are extended with conf_args.
LibxcryptGenerate ==
    /\ libxcrypt.pc = "generate"
    /\ libxcrypt' =
         [libxcrypt EXCEPT
            !.configure_args = @ \o libxcrypt_conf_args(libxcrypt.options),
            !.pc = "build"]
    /\ UNCHANGED <<settings, settings_build, conf, os_environ, profile_options,
                   options, options_order, zlib_package, folders, requires,
                   build_requires, pc, error, generators_folder, source_folder,
                   commands, package_folder, cpp_info, test_package, gtest,
                   gtest_test_package, tk>>

-----------------------------------------------------------------------------
(* The gtest recipe *)

\* GTestConan.options with default_options: name -> value.
gtest_default_options ==
    [shared |-> "False", build_gmock |-> "True", fPIC |-> "True",
     no_main |-> "False", debug_postfix |-> "d", hide_symbols |-> "False"]

\* The recipe when it is not run.
GtestNotRun ==
    [pc |-> "not_run", version |-> None, settings |-> <<>>,
     profile_options |-> <<>>, options |-> <<>>, variables |-> <<>>,
     source_folder |-> {}, commands |-> <<>>, package_folder |-> {},
     cpp_info |-> <<>>, error |-> None]

\* The positions of the dots of a text, in increasing order.
RECURSIVE increasing(_)
increasing(S) ==
    IF S = {} THEN <<>> ELSE <<Least(S)>> \o increasing(S \ {Least(S)})

\* text.split(".")
split_dots(text) ==
    LET dots == increasing({i \in 1..Len(text) : Char(text, i) = "."})
        cuts == <<0>> \o dots \o <<Len(text) + 1>>
    IN  [k \in 1..(Len(cuts) - 1) |-> SubSeq(text, cuts[k] + 1, cuts[k + 1] - 1)]

\* int(text) for a text of decimal digits.
RECURSIVE int(_)
int(text) ==
    IF Len(text) = 0 THEN 0
    ELSE 10 * int(SubSeq(text, 1, Len(text) - 1))
         + (CHOOSE d \in 0..9 : Char("0123456789", d + 1) = Char(text, Len(text)))

\* a < b for two lists of numbers, as Python orders lists.
list_lt(a, b) ==
    \/ \E i \in 1..Len(a) :
          /\ i <= Len(b)
          /\ a[i] < b[i]
          /\ \A j \in 1..(i - 1) : a[j] = b[j]
    \/ /\ Len(a) < Len(b)
       /\ \A j \in 1..Len(a) : a[j] = b[j]

\* loose_lt_semver that compares all the components of the two versions.
loose_lt_semver_all_components(v1, v2) ==
    LET lv1 == [i \in DOMAIN split_dots(v1) |-> int(split_dots(v1)[i])]
        lv2 == [i \in DOMAIN split_dots(v2) |-> int(split_dots(v2)[i])]
    IN  list_lt(lv1, lv2)

\* loose_lt_semver of GTestConan.validate
loose_lt_semver(v1, v2) ==
    LET lv1 == [i \in DOMAIN split_dots(v1) |-> int(split_dots(v1)[i])]
        lv2 == [i \in DOMAIN split_dots(v2) |-> int(split_dots(v2)[i])]
        min_length == IF Len(lv1) < Len(lv2) THEN Len(lv1) ELSE Len(lv2)
    IN  list_lt(SubSeq(lv1, 1, min_length), SubSeq(lv2, 1, min_length))

\* GTestConan._minimum_cpp_standard
gtest_minimum_cpp_standard(version) == IF version = "1.8.1" THEN "98" ELSE "11"

\* GTestConan._minimum_compilers_version
gtest_minimum_compilers_version(version) ==
    IF version = "1.8.1" THEN [c \in {"Visual Studio"} |-> "14"]
    ELSE IF version = "1.10.0"
    THEN ("Visual Studio" :> "14") @@ ("gcc" :> "4.8.1") @@ ("clang" :> "3.3")
         @@ ("apple-clang" :> "5.0")
    ELSE ("Visual Studio" :> "14") @@ ("gcc" :> "5") @@ ("clang" :> "5")
         @@ ("apple-clang" :> "9.1")

\* _is_msvc that knows the compiler "Visual Studio" only.
gtest_is_msvc_visual_studio_only(s) == s.compiler = "Visual Studio"

\* GTestConan._is_msvc
gtest_is_msvc(s) == s.compiler \in {"Visual Studio", "msvc"}

\* conan.tools.microsoft.msvc_runtime_flag for the settings s.
msvc_runtime_flag(s) ==
    IF s.compiler = "Visual Studio" THEN s.runtime
    ELSE IF s.compiler = "msvc"
    THEN (IF s.runtime = "static" THEN "MT" ELSE "MD")
         \o (IF s.runtime_type = "Debug" THEN "d" ELSE "")
    ELSE ""

\* The year of a C++ standard: 98 is older than the others.
cppstd_year(cppstd) == IF cppstd = "98" THEN 1998 ELSE 2000 + int(cppstd)

\* GTestConan.config_options, then the values of the profile.
GtestConfigOptions ==
    /\ gtest.pc = "config_options"
    /\ LET without_fPIC == IF gtest.settings.os = "Windows"
                           THEN del_option(gtest.options, "fPIC")
                           ELSE gtest.options
           without_postfix == IF gtest.settings.build_type # "Debug"
                              THEN del_option(without_fPIC, "debug_postfix")
                              ELSE without_fPIC
       IN  gtest' = [gtest EXCEPT
                       !.options = libxcrypt_assign_profile(without_postfix,
                                                            gtest.profile_options),
                       !.pc = "configure"]
    /\ UNCHANGED <<settings, settings_build, conf, os_environ, profile_options,
                   options, options_order, zlib_package, folders, requires,
                   build_requires, pc, error, generators_folder, source_folder,
                   commands, package_folder, cpp_info, libxcrypt, test_package,
                   gtest_test_package, tk>>

\* GTestConan.configure.  Deleting an option that config_options has deleted
\* already is ignored by the package manager of one major version and raises
\* with the other.
GtestConfigure ==
    /\ gtest.pc = "configure"
    /\ \E raises \in BOOLEAN :
         gtest' =
           IF ~truthy(gtest.options.shared)
           THEN [gtest EXCEPT !.pc = "validate"]
           ELSE IF "fPIC" \notin DOMAIN gtest.options /\ raises
           THEN [gtest EXCEPT
                   !.error = "ConanException: option 'fPIC' doesn't exist",
                   !.pc = "failed"]
           ELSE [gtest EXCEPT !.options = del_option(@, "fPIC"),
                              !.pc = "validate"]
    /\ UNCHANGED <<settings, settings_build, conf, os_environ, profile_options,
                   options, options_order, zlib_package, folders, requires,
                   build_requires, pc, error, generators_folder, source_folder,
                   commands, package_folder, cpp_info, libxcrypt, test_package,
                   gtest_test_package, tk>>

\* The message of the check of the minimum version of the compiler.
gtest_requires_message(s, min_version) ==
    "ConanInvalidConfiguration: gtest requires " \o s.compiler \o " "
    \o min_version \o ". The current compiler is " \o s.compiler \o " "
    \o s.compiler_version \o "."

\* GTestConan.validate
GtestValidate ==
    /\ gtest.pc = "validate"
    /\ LET s == gtest.settings
           min_version == dict_get(gtest_minimum_compilers_version(gtest.version),
                                   s.compiler)
       IN  gtest' =
             IF /\ truthy(gtest.options.shared)
                /\ gtest_is_msvc(s)
                /\ occurs_in(msvc_runtime_flag(s), "MT")
             THEN [gtest EXCEPT
                     !.error = "ConanInvalidConfiguration: gtest:shared=True with "
                               \o "compiler=\"Visual Studio\" is not compatible "
                               \o "with compiler.runtime=MT/MTd",
                     !.pc = "failed"]
             ELSE IF /\ py_bool(s.cppstd)
                     /\ cppstd_year(s.cppstd)
                          < cppstd_year(gtest_minimum_cpp_standard(gtest.version))
             THEN [gtest EXCEPT
                     !.error = "ConanInvalidConfiguration: Current cppstd ("
                               \o s.cppstd \o ") is lower than the required C++ "
                               \o "standard ("
                               \o gtest_minimum_cpp_standard(gtest.version) \o ").",
                     !.pc = "failed"]
             ELSE IF /\ py_bool(min_version)
                     /\ loose_lt_semver(s.compiler_version, min_version)
             THEN [gtest EXCEPT !.error = gtest_requires_message(s, min_version),
                                !.pc = "failed"]
             ELSE [gtest EXCEPT !.pc = "source"]
    /\ UNCHANGED <<settings, settings_build, conf, os_environ, profile_options,
                   options, options_order, zlib_package, folders, requires,
                   build_requires, pc, error, generators_folder, source_folder,
                   commands, package_folder, cpp_info, libxcrypt, test_package,
                   gtest_test_package, tk>>

\* GTestConan.source: the sources of googletest.
GtestSource ==
    /\ gtest.pc = "source"
    /\ gtest' = [gtest EXCEPT
                   !.source_folder = {"LICENSE", "CMakeLists.txt",
                                      "googletest/cmake/internal_utils.cmake"},
                   !.pc = "generate"]
    /\ UNCHANGED <<settings, settings_build, conf, os_environ, profile_options,
                   options, options_order, zlib_package, folders, requires,
                   build_requires, pc, error, generators_folder, source_folder,
                   commands, package_folder, cpp_info, libxcrypt, test_package,
                   gtest_test_package, tk>>

\* GTestConan.generate: the variables of the toolchain.
GtestGenerate ==
    /\ gtest.pc = "generate"
    /\ LET s == gtest.settings IN
       gtest' = [gtest EXCEPT
                   !.variables =
                      (IF s.build_type = "Debug"
                       THEN "CUSTOM_DEBUG_POSTFIX" :> gtest.options.debug_postfix
                       ELSE <<>>)
                      @@ (IF gtest_is_msvc(s)
                          THEN "gtest_force_shared_crt"
                                 :> occurs_in(msvc_runtime_flag(s), "MD")
                          ELSE <<>>)
                      @@ ("BUILD_GMOCK" :> gtest.options.build_gmock)
                      @@ (IF s.os = "Windows" /\ s.compiler = "gcc"
                          THEN "gtest_disable_pthreads" :> TRUE ELSE <<>>),
                   !.pc = "build"]
    /\ UNCHANGED <<settings, settings_build, conf, os_environ, profile_options,
                   options, options_order, zlib_package, folders, requires,
                   build_requires, pc, error, generators_folder, source_folder,
                   commands, package_folder, cpp_info, libxcrypt, test_package,
                   gtest_test_package, tk>>

\* GTestConan.build: cmake configures and builds; a command that fails ends
\* the build.
GtestBuild ==
    /\ gtest.pc = "build"
    /\ \E configure_exit \in ExitCodes, build_exit \in ExitCodes :
         gtest' =
           IF configure_exit # 0
           THEN [gtest EXCEPT !.commands = @ \o <<"cmake -S . -B .">>,
                              !.error = run_error("cmake -S . -B ."),
                              !.pc = "failed"]
           ELSE IF build_exit # 0
           THEN [gtest EXCEPT
                   !.commands = @ \o <<"cmake -S . -B .", "cmake --build .">>,
                   !.error = run_error("cmake --build ."),
                   !.pc = "failed"]
           ELSE [gtest EXCEPT
                   !.commands = @ \o <<"cmake -S . -B .", "cmake --build .">>,
                   !.pc = "package"]
    /\ UNCHANGED <<settings, settings_build, conf, os_environ, profile_options,
                   options, options_order, zlib_package, folders, requires,
                   build_requires, pc, error, generators_folder, source_folder,
                   commands, package_folder, cpp_info, libxcrypt, test_package,
                   gtest_test_package, tk>>

\* GTestConan._postfix
gtest_postfix ==
    IF gtest.settings.build_type = "Debug" THEN gtest.options.debug_postfix ELSE ""

\* The names of the libraries the options have built.
gtest_libraries ==
    {"gtest"}
    \cup (IF ~truthy(gtest.options.no_main) THEN {"gtest_main"} ELSE {})
    \cup (IF truthy(gtest.options.build_gmock) THEN {"gmock"} ELSE {})
    \cup (IF truthy(gtest.options.build_gmock) /\ ~truthy(gtest.options.no_main)
          THEN {"gmock_main"} ELSE {})

\* What the install step of googletest puts in the package folder.
gtest_installed_files ==
    {"include/gtest/gtest.h"}
    \cup {"lib/lib" \o name \o gtest_postfix \o ".a" : name \in gtest_libraries}
    \cup {"lib/pkgconfig/" \o name \o ".pc" : name \in gtest_libraries}
    \cup {"lib/cmake/GTest/GTestConfig.cmake"}

\* GTestConan.package: the licence, what cmake installs, and the removal of
\* lib/pkgconfig and lib/cmake.
GtestPackage ==
    /\ gtest.pc = "package"
    /\ \E install_exit \in ExitCodes :
         LET copied == IF "LICENSE" \in gtest.source_folder
                       THEN {"licenses/LICENSE"} ELSE {}
             kept == {f \in gtest_installed_files :
                        /\ ~starts_at(f, 1, "lib/pkgconfig/")
                        /\ ~starts_at(f, 1, "lib/cmake/")}
         IN  gtest' =
               IF install_exit # 0
               THEN [gtest EXCEPT !.commands = @ \o <<"cmake --install .">>,
                                  !.package_folder = copied,
                                  !.error = run_error("cmake --install ."),
                                  !.pc = "failed"]
               ELSE [gtest EXCEPT !.commands = @ \o <<"cmake --install .">>,
                                  !.package_folder = copied \cup kept,
                                  !.pc = "package_info"]
    /\ UNCHANGED <<settings, settings_build, conf, os_environ, profile_options,
                   options, options_order, zlib_package, folders, requires,
                   build_requires, pc, error, generators_folder, source_folder,
                   commands, package_folder, cpp_info, libxcrypt, test_package,
                   gtest_test_package, tk>>

\* GTestConan.package_info: the properties of the package and the libs of
\* its components.
GtestPackageInfo ==
    /\ gtest.pc = "package_info"
    /\ gtest' =
         [gtest EXCEPT
            !.cpp_info =
               [properties |-> [cmake_find_mode |-> "both",
                                cmake_file_name |-> "GTest"],
                components |->
                   [name \in gtest_libraries |->
                       [pkg_config_name |-> name,
                        libs |-> <<name \o gtest_postfix>>,
                        libdirs |-> <<"lib">>,
                        includedirs |-> <<"include">>]]],
            !.pc = "done"]
    /\ UNCHANGED <<settings, settings_build, conf, os_environ, profile_options,
                   options, options_order, zlib_package, folders, requires,
                   build_requires, pc, error, generators_folder, source_folder,
                   commands, package_folder, cpp_info, libxcrypt, test_package,
                   gtest_test_package, tk>>

\* cpp_info.get_property(name) of the gtest package: None for a property
\* that is not set.
gtest_get_property(name) ==
    IF name \in DOMAIN gtest.cpp_info.properties
    THEN gtest.cpp_info.properties[name] ELSE None

\* The test package of gtest before the package manager runs it.
GtestTestPackageNotRun ==
    [pc |-> "not_run", variables |-> <<>>, generators_folder |-> <<>>,
     error |-> None]

\* TestPackageConan.generate of gtest: the variables of the toolchain, then
\* the property license_path saved in license_path.txt; save() writes a text
\* and raises for None.
GtestTestPackageGenerate ==
    /\ gtest.pc = "done"
    /\ gtest_test_package.pc = "generate"
    /\ LET variables == [WITH_GMOCK |-> gtest.options.build_gmock,
                         WITH_MAIN |-> ~truthy(gtest.options.no_main)]
           license_path == gtest_get_property("license_path")
       IN  gtest_test_package' =
             IF license_path = None
             THEN [gtest_test_package EXCEPT
                     !.variables = variables,
                     !.error = "TypeError: write() argument must be str, not None",
                     !.pc = "failed"]
             ELSE [gtest_test_package EXCEPT
                     !.variables = variables,
                     !.generators_folder = "license_path.txt" :> license_path,
                     !.pc = "build"]
    /\ UNCHANGED <<settings, settings_build, conf, os_environ, profile_options,
                   options, options_order, zlib_package, folders, requires,
                   build_requires, pc, error, generators_folder, source_folder,
                   commands, package_folder, cpp_info, libxcrypt, test_package,
                   gtest, tk>>

-----------------------------------------------------------------------------
(* The tk recipe *)

\* TkConan.options with default_options: name -> value.
tk_default_options == [shared |-> "False", fPIC |-> "True"]

\* The recipe when it is not run.
TkNotRun ==
    [pc |-> "not_run", version |-> None, settings |-> <<>>,
     profile_options |-> <<>>, options |-> <<>>, tcl |-> <<>>,
     build_json |-> <<>>, commands |-> <<>>, package_folder |-> {},
     error |-> None]

\* TkConan.config_options, then the values of the profile.
TkConfigOptions ==
    /\ tk.pc = "config_options"
    /\ tk' = [tk EXCEPT
                !.options = libxcrypt_assign_profile(
                                IF tk.settings.os = "Windows"
                                THEN del_option(@, "fPIC") ELSE @,
                                tk.profile_options),
                !.pc = "configure"]
    /\ UNCHANGED <<settings, settings_build, conf, os_environ, profile_options,
                   options, options_order, zlib_package, folders, requires,
                   build_requires, pc, error, generators_folder, source_folder,
                   commands, package_folder, cpp_info, libxcrypt, test_package,
                   gtest, gtest_test_package>>

\* TkConan.configure.  Deleting an option that config_options has deleted
\* already is ignored by the package manager of one major version and raises
\* with the other; the sub-settings libcxx and cppstd are deleted.
TkConfigure ==
    /\ tk.pc = "configure"
    /\ \E raises \in BOOLEAN :
         tk' =
           IF truthy(tk.options.shared) /\ "fPIC" \notin DOMAIN tk.options /\ raises
           THEN [tk EXCEPT
                   !.error = "ConanException: option 'fPIC' doesn't exist",
                   !.pc = "failed"]
           ELSE [tk EXCEPT
                   !.options = IF truthy(tk.options.shared)
                               THEN del_option(@, "fPIC") ELSE @,
                   !.settings = [@ EXCEPT !.compiler_subsettings =
                                             @ \ {"libcxx", "cppstd"}],
                   !.pc = "validate"]
    /\ UNCHANGED <<settings, settings_build, conf, os_environ, profile_options,
                   options, options_order, zlib_package, folders, requires,
                   build_requires, pc, error, generators_folder, source_folder,
                   commands, package_folder, cpp_info, libxcrypt, test_package,
                   gtest, gtest_test_package>>

\* TkConan.validate
TkValidate ==
    /\ tk.pc = "validate"
    /\ tk' =
         IF tk.tcl.shared # tk.options.shared
         THEN [tk EXCEPT
                 !.error = "ConanInvalidConfiguration: The shared option of tcl "
                           \o "and tk must have the same value",
                 !.pc = "failed"]
         ELSE [tk EXCEPT !.pc = "generate"]
    /\ UNCHANGED <<settings, settings_build, conf, os_environ, profile_options,
                   options, options_order, zlib_package, folders, requires,
                   build_requires, pc, error, generators_folder, source_folder,
                   commands, package_folder, cpp_info, libxcrypt, test_package,
                   gtest, gtest_test_package>>

\* The separator of paths on the machine of the tk build.
tk_sep == IF tk.settings.os = "Windows" THEN "\\" ELSE "/"

\* The folders of the tk build.
tk_source_folder ==
    IF tk.settings.os = "Windows" THEN "C:\\src\\tk" \o tk.version \o "\\win"
    ELSE IF tk.settings.os = "Macos" THEN "/src/tk" \o tk.version \o "/macosx"
    ELSE "/src/tk" \o tk.version \o "/unix"

tk_package_folder == IF tk.settings.os = "Windows" THEN "C:\\pkg" ELSE "/pkg"

\* lambda v: "yes" if v else "no"
yes_no(v) == IF v THEN "yes" ELSE "no"

\* "".join(self.version.split(".")[:2])
tk_version_infix ==
    LET parts == split_dots(tk.version) IN parts[1] \o parts[2]

\* The libraries of tcl that _generate_nmake_command looks for among the
\* files of the lib folder of tcl: None when there is none.
tk_tcl_library(prefix) ==
    LET found == {lib \in tk.tcl.libs :
                     /\ endswith(lib, ".lib")
                     /\ starts_at(lib, 1, prefix \o tk_version_infix)}
    IN  IF found = {} THEN None
        ELSE tk.tcl.package_folder \o tk_sep \o "lib" \o tk_sep
             \o (CHOOSE lib \in found : TRUE)

\* TkConan._generate_nmake_command, once both libraries are found.
_generate_nmake_command ==
    LET opts == (IF ~truthy(tk.options.shared) THEN <<"static">> ELSE <<>>)
                \o (IF tk.settings.build_type = "Debug" THEN <<"symbols">> ELSE <<>>)
                \o (IF occurs_in(tk.settings.runtime, "MD")
                    THEN <<"msvcrt">> ELSE <<"nomsvcrt">>)
                \o (IF ~occurs_in(tk.settings.runtime, "d")
                    THEN <<"unchecked">> ELSE <<>>)
        tcldir == replace(tk.tcl.package_folder, "/", "\\\\")
    IN  "-nologo -f \"" \o tk_source_folder \o "/makefile.vc\" INSTALLDIR=\""
        \o tk_package_folder \o "\" OPTS=" \o join(",", opts)
        \o " TCLDIR=\"" \o tcldir \o "\" TCL_LIBRARY=\""
        \o replace(tk.tcl.TCL_LIBRARY, "\\", "/")
        \o "\" TCLIMPLIB=\"" \o tk_tcl_library("tcl")
        \o "\" TCLSTUBLIB=\"" \o tk_tcl_library("tclstub") \o "\""

\* What AutotoolsToolchain.generate saves in the build record.
tk_toolchain_json ==
    LET tcl_root == tk.tcl.package_folder
        tcl_config == replace(tcl_root \o "/lib", "\\", "/")
    IN  [configure_args |->
            <<"--with-tcl=" \o (IF tk.settings.os = "Windows"
                                THEN unix_path(tcl_config) ELSE tcl_config),
              "--enable-threads",
              "--enable-shared=" \o yes_no(truthy(tk.options.shared)),
              "--enable-symbols=" \o yes_no(tk.settings.build_type = "Debug"),
              "--enable-64bit=" \o yes_no(tk.settings.arch = "x86_64"),
              "--with-x=" \o yes_no(tk.settings.os = "Linux"),
              "--enable-aqua=" \o yes_no(tk.settings.os = "Macos")>>,
         make_args |->
            <<replace("TCL_GENERIC_DIR=" \o tcl_root \o tk_sep \o "include",
                      "\\", "/")>>]

\* The build record generate() saves for Visual Studio without its nmake_args.
tk_build_json_without_nmake_args(data, cmd) == data

\* The build record generate() saves for Visual Studio: what it loads, with
\* the nmake_args.
tk_build_json(data, cmd) == ("nmake_args" :> cmd) @@ data

\* TkConan.generate: the toolchain saves its arguments; for Visual Studio the
\* arguments of nmake are added to the record, unless a library of tcl is
\* missing.
TkGenerate ==
    /\ tk.pc = "generate"
    /\ tk' =
         IF tk.settings.compiler # "Visual Studio"
         THEN [tk EXCEPT !.build_json = tk_toolchain_json, !.pc = "build"]
         ELSE IF tk_tcl_library("tcl") = None \/ tk_tcl_library("tclstub") = None
         THEN [tk EXCEPT
                 !.build_json = tk_toolchain_json,
                 !.error = "ConanException: tcl dependency misses tcl and/or "
                           \o "tclstub library",
                 !.pc = "failed"]
         ELSE [tk EXCEPT
                 !.build_json = tk_build_json(tk_toolchain_json,
                                              _generate_nmake_command),
                 !.pc = "build"]
    /\ UNCHANGED <<settings, settings_build, conf, os_environ, profile_options,
                   options, options_order, zlib_package, folders, requires,
                   build_requires, pc, error, generators_folder, source_folder,
                   commands, package_folder, cpp_info, libxcrypt, test_package,
                   gtest, gtest_test_package>>

\* The command line of Autotools.configure().
tk_configure_command ==
    tk_source_folder \o "/configure " \o join(" ", tk.build_json.configure_args)

\* The command line of Autotools.make() for a target.
tk_make_command(target) ==
    "make " \o join(" ", tk.build_json.make_args)
    \o (IF target = None THEN "" ELSE " " \o target)

\* TkConan.build: nmake with the nmake_args of the build record for Visual
\* Studio, configure and make otherwise.  The sources of tk hold the texts
\* that _patch_sources replaces.
TkBuild ==
    /\ tk.pc = "build"
    /\ \E first_exit \in ExitCodes, second_exit \in ExitCodes :
         tk' =
           IF tk.settings.compiler = "Visual Studio"
           THEN IF "nmake_args" \notin DOMAIN tk.build_json
                THEN [tk EXCEPT !.error = "KeyError: 'nmake_args'",
                                !.pc = "failed"]
                ELSE LET cmd == "nmake " \o tk.build_json.nmake_args \o " release"
                     IN  IF first_exit # 0
                         THEN [tk EXCEPT !.commands = @ \o <<cmd>>,
                                         !.error = run_error(cmd),
                                         !.pc = "failed"]
                         ELSE [tk EXCEPT !.commands = @ \o <<cmd>>,
                                         !.pc = "package"]
           ELSE IF first_exit # 0
           THEN [tk EXCEPT !.commands = @ \o <<tk_configure_command>>,
                           !.error = run_error(tk_configure_command),
                           !.pc = "failed"]
           ELSE IF second_exit # 0
           THEN [tk EXCEPT
                   !.commands = @ \o <<tk_configure_command, tk_make_command(None)>>,
                   !.error = run_error(tk_make_command(None)),
                   !.pc = "failed"]
           ELSE [tk EXCEPT
                   !.commands = @ \o <<tk_configure_command, tk_make_command(None)>>,
                   !.pc = "package"]
    /\ UNCHANGED <<settings, settings_build, conf, os_environ, profile_options,
                   options, options_order, zlib_package, folders, requires,
                   build_requires, pc, error, generators_folder, source_folder,
                   commands, package_folder, cpp_info, libxcrypt, test_package,
                   gtest, gtest_test_package>>

\* What the install step of tk puts in the package folder.
tk_installed_files ==
    {"include/tk.h", "lib/tkConfig.sh", "man/man1/wish.1", "share/doc/tk"}
    \cup (IF tk.settings.compiler = "Visual Studio" THEN {}
          ELSE {"lib/pkgconfig/tk.pc"})

\* TkConan.package: the licence, the install step with the nmake_args of the
\* build record for Visual Studio and with make otherwise, and the removal
\* of lib/pkgconfig, man and share.
TkPackage ==
    /\ tk.pc = "package"
    /\ \E first_exit \in ExitCodes, second_exit \in ExitCodes :
         LET licence == {"licenses/license.terms"}
             kept == {f \in tk_installed_files :
                        /\ ~starts_at(f, 1, "lib/pkgconfig/")
                        /\ ~starts_at(f, 1, "man/")
                        /\ ~starts_at(f, 1, "share/")}
             install == tk_make_command("install")
             headers == tk_make_command("install-private-headers")
         IN  tk' =
               IF tk.settings.compiler = "Visual Studio"
               THEN IF "nmake_args" \notin DOMAIN tk.build_json
                    THEN [tk EXCEPT !.package_folder = licence,
                                    !.error = "KeyError: 'nmake_args'",
                                    !.pc = "failed"]
                    ELSE LET cmd == "nmake " \o tk.build_json.nmake_args
                                    \o " install"
                         IN  IF first_exit # 0
                             THEN [tk EXCEPT !.commands = @ \o <<cmd>>,
                                             !.package_folder = licence,
                                             !.error = run_error(cmd),
                                             !.pc = "failed"]
                             ELSE [tk EXCEPT !.commands = @ \o <<cmd>>,
                                             !.package_folder = licence \cup kept,
                                             !.pc = "done"]
               ELSE IF first_exit # 0
               THEN [tk EXCEPT !.commands = @ \o <<install>>,
                               !.package_folder = licence,
                               !.error = run_error(install),
                               !.pc = "failed"]
               ELSE IF second_exit # 0
               THEN [tk EXCEPT !.commands = @ \o <<install, headers>>,
                               !.package_folder = licence \cup tk_installed_files,
                               !.error = run_error(headers),
                               !.pc = "failed"]
               ELSE [tk EXCEPT !.commands = @ \o <<install, headers>>,
                               !.package_folder = licence \cup kept,
                               !.pc = "done"]
    /\ UNCHANGED <<settings, settings_build, conf, os_environ, profile_options,
                   options, options_order, zlib_package, folders, requires,
                   build_requires, pc, error, generators_folder, source_folder,
                   commands, package_folder, cpp_info, libxcrypt, test_package,
                   gtest, gtest_test_package>>

-----------------------------------------------------------------------------
(* The test package of openssl *)

\* The test package before the package manager runs it.
TestPackageNotRun ==
    [pc |-> "not_run", variables |-> <<>>, generators_folder |-> <<>>,
     commands |-> <<>>, error |-> None]

\* The test package when the openssl recipe is run: it is run once the
\* package is made.
TestPackageToRun == [TestPackageNotRun EXCEPT !.pc = "generate"]

\* str(value) of an option's value.
str(value) == value

\* json.dumps({"no_stdio": value}) for a text.
custom_json_dumps(value) == "{\"no_stdio\": " \o json_string(value) \o "}"

\* json.loads(text)["no_stdio"] for the JSON of one key: the second string.
custom_json_loads_no_stdio(text) == json_strings(text)[2]

\* The files PkgConfigDeps writes for the package and its components.
pkg_config_files ==
    {cpp_info.pkg_config_name \o ".pc", cpp_info.ssl.pkg_config_name \o ".pc",
     cpp_info.crypto.pkg_config_name \o ".pc"}

\* conan.tools.build.cross_building(self)
cross_building ==
    settings_build.os # settings.os \/ settings_build.arch # settings.arch

\* TestPackageConan.generate: the toolchain's variables, the licence that
\* has to be in the package, and the option no_stdio saved as a text.
TestPackageGenerate ==
    /\ pc = "done"
    /\ test_package.pc = "generate"
    /\ LET variables ==
               ("OPENSSL_WITH_ZLIB" :> ~truthy(options.no_zlib))
               @@ (IF settings.os = "Android" THEN "CONAN_LIBCXX" :> "" ELSE <<>>)
           generated == [f \in pkg_config_files |-> ""]
       IN  test_package' =
             IF "licenses/LICENSE.txt" \notin package_folder
             THEN [test_package EXCEPT !.variables = variables,
                                       !.generators_folder = generated,
                                       !.error = "AssertionError",
                                       !.pc = "failed"]
             ELSE [test_package EXCEPT
                     !.variables = variables,
                     !.generators_folder =
                        ("custom.json" :> custom_json_dumps(str(options.no_stdio)))
                        @@ generated,
                     !.pc = "build"]
    /\ UNCHANGED <<settings, settings_build, conf, os_environ, profile_options,
                   options, options_order, zlib_package, folders, requires,
                   build_requires, pc, error, generators_folder, source_folder,
                   commands, package_folder, cpp_info, libxcrypt, gtest,
                   gtest_test_package, tk>>

\* TestPackageConan.build: cmake configures and builds; a command that fails
\* ends the test.
TestPackageBuild ==
    /\ test_package.pc = "build"
    /\ \E configure_exit \in ExitCodes, build_exit \in ExitCodes :
         test_package' =
           IF configure_exit # 0
           THEN [test_package EXCEPT !.commands = @ \o <<"cmake -S . -B .">>,
                                     !.error = run_error("cmake -S . -B ."),
                                     !.pc = "failed"]
           ELSE IF build_exit # 0
           THEN [test_package EXCEPT
                   !.commands = @ \o <<"cmake -S . -B .", "cmake --build .">>,
                   !.error = run_error("cmake --build ."),
                   !.pc = "failed"]
           ELSE [test_package EXCEPT
                   !.commands = @ \o <<"cmake -S . -B .", "cmake --build .">>,
                   !.pc = "test"]
    /\ UNCHANGED <<settings, settings_build, conf, os_environ, profile_options,
                   options, options_order, zlib_package, folders, requires,
                   build_requires, pc, error, generators_folder, source_folder,
                   commands, package_folder, cpp_info, libxcrypt, gtest,
                   gtest_test_package, tk>>

\* self.cpp.build.bindirs[0] of the test package's layout.
test_bindir == "bin"

\* TestPackageConan.test: the example, unless the build is a cross build,
\* "openssl version" unless what custom.json holds for no_stdio is true for
\* Python, and the pkg-config files that have to be there.
TestPackageTest ==
    /\ test_package.pc = "test"
    /\ \E digest_exit \in ExitCodes, version_exit \in ExitCodes :
         LET bin_path == path_join(test_bindir, "digest")
             digest == IF ~cross_building THEN <<bin_path>> ELSE <<>>
             no_stdio == custom_json_loads_no_stdio(
                             test_package.generators_folder["custom.json"])
             version == IF ~py_bool(no_stdio) THEN <<"openssl version">> ELSE <<>>
         IN  test_package' =
               IF digest # <<>> /\ digest_exit # 0
               THEN [test_package EXCEPT !.commands = @ \o digest,
                                         !.error = run_error(bin_path),
                                         !.pc = "failed"]
               ELSE IF version # <<>> /\ version_exit # 0
               THEN [test_package EXCEPT !.commands = @ \o digest \o version,
                                         !.error = run_error("openssl version"),
                                         !.pc = "failed"]
               ELSE IF ~({"libcrypto.pc", "libssl.pc", "openssl.pc"}
                           \subseteq DOMAIN test_package.generators_folder)
               THEN [test_package EXCEPT !.commands = @ \o digest \o version,
                                         !.error = "AssertionError",
                                         !.pc = "failed"]
               ELSE [test_package EXCEPT !.commands = @ \o digest \o version,
                                         !.pc = "done"]
    /\ UNCHANGED <<settings, settings_build, conf, os_environ, profile_options,
                   options, options_order, zlib_package, folders, requires,
                   build_requires, pc, error, generators_folder, source_folder,
                   commands, package_folder, cpp_info, libxcrypt, gtest,
                   gtest_test_package, tk>>

Next ==
    \/ TkConfigOptions
    \/ TkConfigure
    \/ TkValidate
    \/ TkGenerate
    \/ TkBuild
    \/ TkPackage
    \/ GtestConfigOptions
    \/ GtestConfigure
    \/ GtestValidate
    \/ GtestSource
    \/ GtestGenerate
    \/ GtestBuild
    \/ GtestPackage
    \/ GtestPackageInfo
    \/ GtestTestPackageGenerate
    \/ TestPackageGenerate
    \/ TestPackageBuild
    \/ TestPackageTest
    \/ LibxcryptConfigOptions
    \/ LibxcryptConfigure
    \/ LibxcryptGenerate
    \/ ConfigOptions
    \/ Configure
    \/ Requirements
    \/ BuildRequirements
    \/ Validate
    \/ Generate
    \/ Build
    \/ Package
    \/ PackageInfo

-----------------------------------------------------------------------------
(* The builds *)

\* The largest number of options a profile of SpecArgs gives a value.
MaxProfileOptions == 2

OsValues ==
    {"Linux", "Macos", "iOS", "watchOS", "tvOS", "Android", "Windows",
     "WindowsStore", "WindowsCE", "SunOS", "AIX", "FreeBSD", "Emscripten",
     "Neutrino", "PlanX"}

\* "armv8-32" is the architecture the table spells with a hyphen.
ArchValues ==
    {"x86", "x86_64", "armv7", "armv8", "armv8_32", "armv8-32", "mips", "ia64", "vax"}

CompilerValues ==
    {"gcc", "clang", "apple-clang", "Visual Studio", "msvc", "intel-cc", "tcc"}

\* The settings of a build, the sub-settings following from the main ones.
SettingsOf(os, arch, compiler, build_type, subsystem) ==
    [os |-> os,
     os_subsystem |-> subsystem,
     os_api_level |-> IF os = "Android" THEN "21" ELSE None,
     arch |-> arch,
     compiler |-> compiler,
     compiler_version |-> IF compiler = "msvc" THEN "193"
                          ELSE IF compiler = "Visual Studio" THEN "17" ELSE "12",
     compiler_runtime |-> IF compiler = "msvc" THEN "dynamic"
                          ELSE IF compiler = "Visual Studio" THEN "MD" ELSE None,
     compiler_runtime_type |-> IF compiler = "msvc" THEN build_type ELSE None,
     compiler_subsettings |-> IF compiler \in {"msvc", "Visual Studio"}
                              THEN {"cppstd"} ELSE {"libcxx", "cppstd"},
     build_type |-> build_type]

\* Every operating system, architecture and compiler, and Cygwin on Windows.
ResolverSettings ==
    {SettingsOf(os, arch, compiler, "Release", None) :
        os \in OsValues, arch \in ArchValues, compiler \in CompilerValues}
    \cup {SettingsOf("Windows", arch, compiler, "Release", "cygwin") :
            arch \in ArchValues, compiler \in CompilerValues}

\* A few builds of each kind the argument assembly tells apart.
ArgsSettings ==
    {SettingsOf("Linux", "x86_64", "clang", "Release", None),
     SettingsOf("Linux", "x86_64", "gcc", "Debug", None),
     SettingsOf("Windows", "x86_64", "msvc", "Debug", None),
     [SettingsOf("Windows", "x86", "msvc", "Release", None)
        EXCEPT !.compiler_runtime = "static"],
     SettingsOf("Windows", "x86_64", "Visual Studio", "Release", None),
     SettingsOf("Windows", "x86_64", "gcc", "Release", None),
     SettingsOf("Windows", "x86_64", "clang", "Release", None),
     SettingsOf("Android", "armv8", "clang", "Release", None),
     SettingsOf("Emscripten", "wasm", "clang", "Release", None),
     SettingsOf("Neutrino", "armv8", "qcc", "Release", None),
     SettingsOf("Macos", "armv8", "apple-clang", "Release", None)}

BuildMachines ==
    {[os |-> "Linux", arch |-> "x86_64"], [os |-> "Windows", arch |-> "x86_64"]}

\* An option with a value other than its default.
ProfileChoices ==
    {<<"shared", "True">>, <<"fPIC", "False">>, <<"no_threads", "True">>,
     <<"no_zlib", "True">>, <<"no_fips", "True">>, <<"no_stdio", "True">>,
     <<"no_asm", "False">>, <<"capieng_dialog", "True">>,
     <<"enable_capieng", "True">>, <<"openssldir", "/o">>, <<"386", "True">>}

ProfileOf(choices) ==
    [n \in {c[1] : c \in choices} |-> (CHOOSE c \in choices : c[1] = n)[2]]

Profiles ==
    {ProfileOf(choices) : choices \in
        {s \in SUBSET ProfileChoices : Cardinality(s) <= MaxProfileOptions}}

\* The folders on a build machine, with or without a package folder.
FoldersOf(build_os, packaged) ==
    IF build_os = "Windows"
    THEN [package_folder |-> IF packaged THEN "C:\\P" ELSE None, build_folder |-> "C:\\B"]
    ELSE [package_folder |-> IF packaged THEN "/p" ELSE None, build_folder |-> "/b"]

\* The zlib package on a build machine.
ZlibOf(build_os, shared) ==
    IF build_os = "Windows"
    THEN [includedirs |-> <<"C:\\z\\include">>, libdirs |-> <<"C:\\z\\lib">>,
          libs |-> <<"zlib">>, shared |-> shared]
    ELSE [includedirs |-> <<"/z/include">>, libdirs |-> <<"/z/lib">>,
          libs |-> <<"z">>, shared |-> shared]

\* A dependency graph that holds nothing for zlib.
NoPackage == <<>>

\* Configurations/10-main.conf as source() leaves it, cut to its runtime flags.
MainConf == "/Gy /MD\" /Od /MDd \" /MT "

\* The option names from the last to the first.
reversed_option_names ==
    [i \in 1..Len(option_names) |-> option_names[Len(option_names) + 1 - i]]

\* The orders in which the options' dict may hold the names: the order of
\* the declaration (a dict that keeps insertion order), its reverse and the
\* sorted one (a dict that does not).
OptionOrders == {option_names, reversed_option_names, sorted_option_names}

\* The state after construction, for builds drawn from the given sets.
InitOf(settings_set, overrides, profiles, packaged_set, zlib_shared_set) ==
    /\ settings \in settings_set
    /\ options_order \in OptionOrders
    /\ settings_build \in BuildMachines
    /\ conf \in [user_openssl_configuration : overrides,
                 tools_apple_sdk_path : {None},
                 tools_gnu_make_program : {"make"},
                 tools_microsoft_bash_path : {None},
                 tools_build_jobs : {None}]
    /\ os_environ = <<>>
    /\ profile_options \in profiles
    /\ options = default_options
    /\ \E shared \in zlib_shared_set :
          zlib_package = IF shared = None THEN NoPackage
                         ELSE ZlibOf(settings_build.os, shared)
    /\ \E packaged \in packaged_set : folders = FoldersOf(settings_build.os, packaged)
    /\ requires = {}
    /\ build_requires = {}
    /\ pc = "config_options"
    /\ error = None
    /\ generators_folder = <<>>
    /\ source_folder = ("Configurations/10-main.conf" :> MainConf)
                       @@ ("LICENSE.txt" :> "")
    /\ commands = <<>>
    /\ package_folder = {}
    /\ cpp_info = <<>>
    /\ libxcrypt = LibxcryptNotRun
    /\ test_package = TestPackageToRun
    /\ gtest = GtestNotRun
    /\ gtest_test_package = GtestTestPackageNotRun
    /\ tk = TkNotRun

\* The settings of a libxcrypt build: os, compiler and the compiler's
\* sub-settings.
LibxcryptSettings ==
    {[os |-> os, compiler |-> compiler,
      compiler_subsettings |-> IF compiler = "Visual Studio" THEN {"cppstd"}
                               ELSE {"libcxx", "cppstd"}] :
        os \in {"Linux", "Macos", "Windows"},
        compiler \in {"gcc", "clang", "Visual Studio"}}

\* The profiles of a libxcrypt build: shared and fPIC, given or not.
LibxcryptProfiles ==
    {<<>>, [shared |-> "True"], [shared |-> "False"], [fPIC |-> "False"],
     [shared |-> "True", fPIC |-> "False"], [shared |-> "False", fPIC |-> "True"]}

\* The openssl recipe when another recipe is run.
OpenSSLNotRun ==
    /\ settings = SettingsOf("Linux", "x86_64", "gcc", "Release", None)
    /\ settings_build = [os |-> "Linux", arch |-> "x86_64"]
    /\ conf = [user_openssl_configuration |-> None, tools_apple_sdk_path |-> None,
               tools_gnu_make_program |-> "make", tools_microsoft_bash_path |-> None,
               tools_build_jobs |-> None]
    /\ os_environ = <<>>
    /\ profile_options = <<>>
    /\ options = default_options
    /\ options_order = option_names
    /\ zlib_package = ZlibOf("Linux", "False")
    /\ folders = FoldersOf("Linux", TRUE)
    /\ requires = {}
    /\ build_requires = {}
    /\ pc = "not_run"
    /\ error = None
    /\ generators_folder = <<>>
    /\ source_folder = <<>>
    /\ commands = <<>>
    /\ package_folder = {}
    /\ cpp_info = <<>>
    /\ test_package = TestPackageNotRun

\* The run of the libxcrypt recipe: the openssl recipe is not run.
InitLibxcrypt ==
    /\ OpenSSLNotRun
    /\ gtest = GtestNotRun
    /\ gtest_test_package = GtestTestPackageNotRun
    /\ tk = TkNotRun
    /\ \E s \in LibxcryptSettings, profile \in LibxcryptProfiles :
          libxcrypt = [pc |-> "config_options", settings |-> s,
                       profile_options |-> profile,
                       options |-> libxcrypt_default_options,
                       configure_args |-> <<>>, error |-> None]

\* The versions of gtest the recipe distinguishes.
GtestVersions == {"1.8.1", "1.10.0", "1.12.1"}

\* The compilers of a gtest build: os, compiler, its version, and the runtime
\* of the Microsoft compilers.
GtestCompilers ==
    {<<"Windows", "Visual Studio", "12", "MD", None>>,
     <<"Windows", "Visual Studio", "14", "MT", None>>,
     <<"Windows", "Visual Studio", "15", "MTd", None>>,
     <<"Windows", "Visual Studio", "16", "MDd", None>>,
     <<"Windows", "msvc", "191", "static", "Release">>,
     <<"Windows", "msvc", "193", "static", "Debug">>,
     <<"Windows", "msvc", "193", "dynamic", "Debug">>,
     <<"Windows", "gcc", "4.8", None, None>>,
     <<"Linux", "gcc", "4.8", None, None>>,
     <<"Linux", "gcc", "4.9", None, None>>,
     <<"Linux", "gcc", "5", None, None>>,
     <<"Linux", "gcc", "5.1", None, None>>,
     <<"Linux", "clang", "3.3", None, None>>,
     <<"Linux", "clang", "4.0.1", None, None>>,
     <<"Macos", "apple-clang", "9.0", None, None>>,
     <<"Macos", "apple-clang", "9.1", None, None>>,
     <<"Linux", "intel", "19", None, None>>}

\* The profiles of a gtest build.
GtestProfiles ==
    {<<>>, [shared |-> "True"], [no_main |-> "True"],
     [shared |-> "True", no_main |-> "True"], [build_gmock |-> "False"]}

\* The run of the gtest recipe and of its test package.
InitGtest ==
    /\ OpenSSLNotRun
    /\ libxcrypt = LibxcryptNotRun
    /\ gtest_test_package = [GtestTestPackageNotRun EXCEPT !.pc = "generate"]
    /\ tk = TkNotRun
    /\ \E version \in GtestVersions, c \in GtestCompilers,
          build_type \in {"Debug", "Release"}, cppstd \in {None, "98"},
          profile \in GtestProfiles :
          gtest = [GtestNotRun EXCEPT
                     !.pc = "config_options",
                     !.version = version,
                     !.settings = [os |-> c[1], compiler |-> c[2],
                                   compiler_version |-> c[3], runtime |-> c[4],
                                   runtime_type |-> c[5],
                                   build_type |-> build_type, cppstd |-> cppstd],
                     !.profile_options = profile,
                     !.options = gtest_default_options]

\* The settings of a tk build: os, compiler, the runtime of Visual Studio.
TkCompilers ==
    {<<"Windows", "Visual Studio", "MD">>, <<"Windows", "Visual Studio", "MT">>,
     <<"Windows", "Visual Studio", "MDd">>, <<"Windows", "msvc", "dynamic">>,
     <<"Windows", "gcc", None>>, <<"Linux", "gcc", None>>,
     <<"Macos", "apple-clang", None>>}

\* The tcl package of a tk build: its option shared and the files of its lib
\* folder.
TkTclPackages ==
    {[shared |-> shared, libs |-> libs] :
        shared \in {"False", "True"},
        libs \in {{"tcl86t.lib", "tclstub86.lib", "tcl8"},
                  {"tcl86t.lib", "libtclstub8.6.a"}}}

\* The run of the tk recipe: the other recipes are not run.
InitTk ==
    /\ OpenSSLNotRun
    /\ libxcrypt = LibxcryptNotRun
    /\ gtest = GtestNotRun
    /\ gtest_test_package = GtestTestPackageNotRun
    /\ \E c \in TkCompilers, build_type \in {"Debug", "Release"},
          profile \in {<<>>, [shared |-> "True"]}, tcl \in TkTclPackages :
          tk = [TkNotRun EXCEPT
                  !.pc = "config_options",
                  !.version = "8.6.10",
                  !.settings = [os |-> c[1], compiler |-> c[2], runtime |-> c[3],
                                build_type |-> build_type, arch |-> "x86_64",
                                compiler_subsettings |->
                                   IF c[2] \in {"Visual Studio", "msvc"}
                                   THEN {"cppstd"} ELSE {"libcxx", "cppstd"}],
                  !.profile_options = profile,
                  !.options = tk_default_options,
                  !.tcl = [shared |-> tcl.shared, libs |-> tcl.libs,
                           package_folder |-> IF c[1] = "Windows" THEN "C:\\tcl"
                                              ELSE "/tcl",
                           TCL_LIBRARY |-> IF c[1] = "Windows"
                                           THEN "C:\\tcl\\lib\\tcl8.6"
                                           ELSE "/tcl/lib/tcl8.6"]]

\* Target resolution: every triple, with and without an override.
Init ==
    \/ /\ InitOf(ResolverSettings, {None, "linux64-riscv64"}, {<<>>}, {FALSE}, {"False"})
       /\ options_order = option_names
       /\ settings_build.os = (IF settings.os \in {"Windows", "WindowsStore", "WindowsCE"}
                               THEN "Windows" ELSE "Linux")
    \/ InitLibxcrypt
    \/ InitGtest
    \/ InitTk

Spec == Init /\ [][Next]_vars

\* Argument assembly: a few triples, every profile of the bound.
InitArgs ==
    \/ /\ InitOf(ArgsSettings, {None}, Profiles, BOOLEAN, {"False", "True"})
       /\ options_order = option_names
    \/ InitLibxcrypt
    \/ InitGtest
    \/ InitTk

SpecArgs == InitArgs /\ [][Next]_vars

\* The option loop: one build, every profile of the bound, every order of
\* the options' dict, with and without zlib in the dependency graph.
InitOrder ==
    \/ /\ InitOf({SettingsOf("Linux", "x86_64", "clang", "Release", None)}, {None},
                  Profiles, {TRUE}, {"False", None})
       /\ settings_build.os = "Linux"
    \/ InitLibxcrypt
    \/ InitGtest
    \/ InitTk

SpecOrder == InitOrder /\ [][Next]_vars

-----------------------------------------------------------------------------
(* What a build leaves behind *)

Conf20 == "Configurations/20-conan.conf"

BuildJson == "openssl_build.json"

\* generate() has just run, to its end or to an exception.
generate_ran ==
    \/ pc = "build"
    \/ /\ pc = "failed"
       /\ commands = <<>>
       /\ ~starts_at(error, 1, "ConanInvalidConfiguration: os=Emscripten")

no_override == conf.user_openssl_configuration \in {None, ""}

\* The build ended with the error that names the unsupported triple.
unsupported ==
    /\ pc = "failed"
    /\ starts_at(error, 1,
                 "ConanInvalidConfiguration: Unsupported configuration ("
                 \o settings.os \o "/" \o settings.arch \o "/"
                 \o settings.compiler \o ").")
    /\ Conf20 \notin DOMAIN source_folder

\* The ancestors named by the inherit_from entry of the written configuration.
written_chain == json_strings(source_folder[Conf20].inherit_from)

\* The arguments read back from the saved build record.
saved_args == json_loads(generators_folder[BuildJson]).configure_args

\* The query of a build for a compiler name.
query_with(compiler) == settings.os \o "-" \o settings.arch \o "-" \o compiler

\* The index of the first item of the table whose pattern matches, 0 for none.
first_index(table, query) ==
    LET indexes == {k \in 1..Len(table) : fnmatch(query, table[k][1])} IN
    IF indexes = {} THEN 0 ELSE Least(indexes)

\* The build resolved to item k of the table; to the error, for k = 0.
resolved_as(k) ==
    IF k = 0 THEN unsupported
    ELSE /\ pc = "build"
         /\ error = None
         /\ written_chain[1] = _targets[k][2]

\* The positions of an argument in a list.
positions(args, arg) == {i \in 1..Len(args) : args[i] = arg}

-----------------------------------------------------------------------------
(* Target resolution *)

\* C1: without an override the resolved target is the target of the first
\* item of the table, in declaration order, whose pattern matches
\* "OS-arch-compiler"; Linux/x86_64/clang resolves to "linux-x86_64-clang",
\* not to the target of the catch-all "Linux-x86_64-*".
C1_FirstMatchWins ==
    (generate_ran /\ no_override) =>
        LET compiler == IF settings.compiler = "msvc" THEN "Visual Studio"
                        ELSE settings.compiler
            k == first_index(_targets, query_with(compiler))
        IN  /\ k # 0 => resolved_as(k)
            /\ (settings.os = "Linux" /\ settings.arch = "x86_64"
                /\ settings.compiler = "clang")
               => (pc = "build" /\ written_chain[1] = "linux-x86_64-clang")

C1_Witness ==
    /\ pc = "build"
    /\ no_override
    /\ settings.os = "Linux" /\ settings.arch = "x86_64" /\ settings.compiler = "clang"
    /\ fnmatch(query_with("clang"), "Linux-x86_64-*")
    /\ written_chain = <<"linux-x86_64-clang">>

\* C2: with a non-empty override the resolved target is that string for
\* every OS, architecture and compiler, and no unsupported-configuration
\* error is raised, also for a triple that no pattern of the table matches.
C2_OverrideVerbatim ==
    (generate_ran /\ ~no_override) =>
        /\ pc = "build"
        /\ error = None
        /\ written_chain[1] = conf.user_openssl_configuration

C2_Witness ==
    /\ pc = "build"
    /\ conf.user_openssl_configuration = "linux64-riscv64"
    /\ settings.os = "PlanX" /\ settings.arch = "vax" /\ settings.compiler = "tcc"
    /\ first_index(_targets, query_with("tcc")) = 0
    /\ written_chain = <<"linux64-riscv64">>

\* C3: without an override, a triple that no pattern matches (PlanX/vax/tcc
\* for one) ends the build with the unsupported-configuration error that
\* names the triple; no target is written in its place.
C3_NoMatchIsAnError ==
    /\ (generate_ran /\ no_override
        /\ first_index(_targets, query_with(IF settings.compiler = "msvc"
                                            THEN "Visual Studio"
                                            ELSE settings.compiler)) = 0)
       => unsupported
    /\ (generate_ran /\ no_override /\ settings.os = "PlanX")
       => unsupported

C3_Witness ==
    /\ pc = "failed"
    /\ no_override
    /\ settings.os = "PlanX" /\ settings.arch = "vax" /\ settings.compiler = "tcc"
    /\ error = "ConanInvalidConfiguration: Unsupported configuration (PlanX/vax/tcc)."
    /\ Conf20 \notin DOMAIN source_folder

\* The OS families the table names, FreeBSD standing for the BSDs.
TableOsValues ==
    {"Linux", "Macos", "iOS", "watchOS", "tvOS", "Android", "Windows",
     "WindowsStore", "WindowsCE", "SunOS", "AIX", "FreeBSD", "Emscripten",
     "Neutrino"}

\* The compiler is the given one, or its name ends in "-" and the given one.
names_compiler(compiler, given) ==
    \/ compiler = given
    \/ /\ Len(compiler) > Len(given)
       /\ starts_at(compiler, Len(compiler) - Len(given), "-" \o given)

\* C4 as stated: for every OS family the table names, and every architecture
\* and compiler, resolution without an override succeeds.
C4_EveryNamedOsResolves ==
    (generate_ran /\ no_override /\ settings.os \in TableOsValues)
        => (pc = "build" /\ error = None)

\* C4: for every OS family the table names other than Windows, resolution
\* without an override succeeds for every architecture and compiler; for
\* Windows, whose items all end in a compiler name, it succeeds exactly when
\* the compiler (msvc read as Visual Studio) is gcc, Visual Studio or clang,
\* or a name that ends in "-gcc", "-Visual Studio" or "-clang", and raises
\* the unsupported-configuration error otherwise.
C4_NamedOsResolvesButWindows ==
    (generate_ran /\ no_override /\ settings.os \in TableOsValues) =>
        LET compiler == IF settings.compiler = "msvc" THEN "Visual Studio"
                        ELSE settings.compiler
            matched == \/ settings.os # "Windows"
                       \/ \E given \in {"gcc", "Visual Studio", "clang"} :
                              names_compiler(compiler, given)
        IN  IF matched THEN pc = "build" /\ error = None ELSE unsupported

C4_Witness ==
    /\ settings.os = "Windows" /\ settings.arch = "x86_64"
    /\ settings.compiler = "intel-cc"
    /\ no_override
    /\ unsupported

\* A name that the pattern matches: each "*" stands for "x".
pattern_instance(pat) == replace(pat, "*", "x")

\* C5 as stated: every item of the table is the first match of some query;
\* the queries tried are an instance of every pattern.
C5_NoEntryShadowed ==
    LET first_matches == {first_index(_targets, pattern_instance(_targets[j][1])) :
                            j \in 1..Len(_targets)}
    IN  \A k \in 1..Len(_targets) : k \in first_matches

\* C6: with the compiler "msvc" the build resolves as the table resolves the
\* query with the compiler "Visual Studio", for every OS and architecture.
C6_MsvcIsVisualStudio ==
    (generate_ran /\ no_override /\ settings.compiler = "msvc") =>
        resolved_as(first_index(_targets, query_with("Visual Studio")))

C6_Witness ==
    /\ pc = "build"
    /\ no_override
    /\ settings.os = "Windows" /\ settings.arch = "x86_64"
    /\ settings.compiler = "msvc"
    /\ first_index(_targets, query_with("msvc")) = 0
    /\ written_chain[1] = "VC-WIN64A"

\* C7 as stated: on Android, iOS, watchOS and tvOS, when the mapping has an
\* entry for the architecture, inherit_from is written as the resolved target
\* followed by asm(entry); otherwise as the resolved target alone.
C7_AsmAncestorForArchitecture ==
    pc = "build" =>
        LET asm == IF settings.os \in {"Android", "iOS", "watchOS", "tvOS"}
                   THEN dict_get(asm_targets, settings.arch) ELSE None
            resolved == written_chain[1]
        IN  source_folder[Conf20].inherit_from =
              IF py_bool(asm)
              THEN "[ " \o quoted(resolved) \o ", asm(" \o quoted(asm) \o ") ]"
              ELSE "[ " \o quoted(resolved) \o " ]"

\* C8: a perlasm_scheme line is written only for iOS, watchOS, tvOS and
\* Android, and only for an architecture the scheme table of the OS has an
\* entry for; for every other OS and architecture no line is written.
C8_SchemeOnlyForMobile ==
    pc = "build" =>
        LET line == source_folder[Conf20].perlasm_scheme
            has_entry ==
                \/ /\ settings.os \in {"iOS", "watchOS", "tvOS"}
                   /\ settings.arch \in {"armv7", "armv7s", "armv8", "armv8_32",
                                         "armv8.3", "armv7k"}
                \/ /\ settings.os = "Android"
                   /\ settings.arch \in {"armv7", "armv8", "mips", "mips64",
                                         "x86", "x86_64"}
        IN  IF has_entry
            THEN /\ starts_at(line, 1, "perlasm_scheme => \"")
                 /\ Len(line) > Len("perlasm_scheme => \"\",")
            ELSE line = ""

C8_Witness ==
    /\ pc = "build"
    /\ settings.os = "Android" /\ settings.arch = "armv8"
    /\ source_folder[Conf20].perlasm_scheme = "perlasm_scheme => \"linux64\","

-----------------------------------------------------------------------------
(* Argument assembly *)

\* C9 as stated: the first argument is the resolved target, in double quotes.
C9_FirstArgumentIsResolvedTarget ==
    pc = "build" => saved_args[1] = quoted(written_chain[1])

\* C9: the first argument is, in double quotes, the name of the target the
\* recipe generates, "conan-<build_type>-<os>-<arch>-<compiler>-<version>",
\* with "VC-" ahead of it for msvc, Visual Studio and clang on Windows, and
\* "mingw-" for gcc on Windows; the resolved target is what that target
\* inherits from, and is not among the arguments' first.
C9_FirstArgumentIsGeneratedTarget ==
    BuildJson \in DOMAIN generators_folder =>
        LET name == "conan-" \o settings.build_type \o "-" \o settings.os \o "-"
                    \o settings.arch \o "-" \o settings.compiler \o "-"
                    \o settings.compiler_version
            prefix == IF settings.os = "Windows" /\ settings.compiler = "gcc"
                      THEN "mingw-"
                      ELSE IF \/ settings.compiler \in {"msvc", "Visual Studio"}
                              \/ settings.os = "Windows" /\ settings.compiler = "clang"
                      THEN "VC-"
                      ELSE ""
        IN  /\ saved_args[1] = "\"" \o prefix \o name \o "\""
            /\ pc = "build" =>
                 /\ source_folder[Conf20].target = prefix \o name
                 /\ saved_args[1] # quoted(written_chain[1])

C9_Witness ==
    /\ pc = "build"
    /\ settings.os = "Linux" /\ settings.arch = "x86_64" /\ settings.compiler = "clang"
    /\ no_override
    /\ saved_args[1] = "\"conan-Release-Linux-x86_64-clang-12\""
    /\ written_chain[1] = "linux-x86_64-clang"

\* Linux/x86_64/clang with shared=false, fPIC=true, no_zlib=true and
\* no_threads=false, built.
static_pic_threads_build ==
    /\ pc = "build"
    /\ settings.os = "Linux" /\ settings.arch = "x86_64" /\ settings.compiler = "clang"
    /\ options.shared = "False"
    /\ "fPIC" \in DOMAIN options /\ options.fPIC = "True"
    /\ options.no_zlib = "True"
    /\ options.no_threads = "False"

zlib_arguments(args) ==
    {i \in 1..Len(args) :
        \/ args[i] \in {"zlib", "zlib-dynamic"}
        \/ starts_at(args[i], 1, "--with-zlib-")}

C12_NoArgumentTwice ==
    pc = "build" =>
        \A i \in 1..Len(saved_args) : \A j \in 1..Len(saved_args) :
            saved_args[i] = saved_args[j] => i = j

\* The options the loop over the options turns into arguments.
loop_options ==
    {n \in DOMAIN options :
        /\ options[n] \notin {"False", "None", ""}
        /\ n \notin {"shared", "fPIC", "openssldir", "capieng_dialog",
                     "enable_capieng", "no_fips"}}

C14_ConfigureRunsTheRecord ==
    commands # <<>> =>
        LET returned == _get_configure_args(generate_perl).value
            read == json_loads(generators_folder[BuildJson])
        IN  /\ Len(read.configure_args) = Len(returned)
            /\ \A i \in 1..Len(returned) : read.configure_args[i] = returned[i]
            /\ read.perl_exe = generate_perl
            /\ commands[1] = generate_perl \o " ./Configure " \o join(" ", returned)

\* A Windows build whose record holds a path with a backslash inside quotes.
C14_Witness ==
    /\ Len(commands) = 2
    /\ settings_build.os = "Windows"
    /\ saved_args[3] = "--prefix=\"C:\\B\""
    /\ saved_args[5] = "--openssldir=\".\\res\""
    /\ starts_at(commands[1], 1, "perl ./Configure \"")

\* C15: in generate() the target is resolved before the arguments are saved:
\* a build record exists only when resolution succeeded, and a build that
\* ends with the unsupported-configuration error leaves no build record.
\* (generate() saves the record before _create_targets resolves the target.)
C15_NoRecordWithoutResolution ==
    /\ BuildJson \in DOMAIN generators_folder => ~unsupported
    /\ unsupported => BuildJson \notin DOMAIN generators_folder

\* The arguments of a list that switch the linkage, in their order.
linkage_switches(args, switches) == SelectSeq(args, LAMBDA a : a \in switches)

\* C16: the argument list holds exactly one linkage switch, chosen from
\* options.shared.  For openssl it is "shared" when shared is true and
\* "no-shared" when it is false, once and never both; for libxcrypt it is
\* the pair --enable-shared, --disable-static when shared is true and the
\* pair --disable-shared, --enable-static when it is false.
C16_OneLinkageSwitch ==
    /\ pc = "build" =>
         linkage_switches(saved_args, {"shared", "no-shared"})
           = <<IF options.shared = "True" THEN "shared" ELSE "no-shared">>
    /\ libxcrypt.pc = "build" =>
         linkage_switches(libxcrypt.configure_args,
                          {"--enable-shared", "--disable-shared",
                           "--enable-static", "--disable-static"})
           = IF libxcrypt.options.shared = "True"
             THEN <<"--enable-shared", "--disable-static">>
             ELSE <<"--disable-shared", "--enable-static">>

C16_Witness ==
    /\ libxcrypt.pc = "build"
    /\ libxcrypt.profile_options = [shared |-> "True"]
    /\ libxcrypt.configure_args
         = <<"--disable-werror", "--enable-shared", "--disable-static">>

\* The fips arguments of a list, in their order.
fips_arguments(args) == SelectSeq(args, LAMBDA a : a \in {"no-fips", "enable-fips"})

\* The fips modules in the package folder.
packaged_fips_modules ==
    {f \in package_folder : starts_at(f, 1, "lib/ossl-modules/fips.")}

\* C17: the fips argument is binary and decided by the option no_fips alone:
\* the list holds "no-fips" once when no_fips is true and "enable-fips" once
\* when it is false, the loop over the options adds no second fips argument,
\* and the package holds the fips module in lib/ossl-modules exactly when
\* "enable-fips" was among the arguments.
C17_FipsIsBinary ==
    /\ pc \in {"build", "package", "package_info", "done"} =>
         fips_arguments(saved_args)
           = <<IF options.no_fips = "True" THEN "no-fips" ELSE "enable-fips">>
    /\ pc \in {"package_info", "done"} =>
         /\ Cardinality(packaged_fips_modules) <= 1
         /\ packaged_fips_modules # {} <=> positions(saved_args, "enable-fips") # {}

C17_Witness ==
    /\ pc = "done"
    /\ settings.os = "Linux"
    /\ "no_fips" \notin DOMAIN profile_options
    /\ "no_stdio" \in DOMAIN profile_options
    /\ positions(saved_args, "enable-fips") # {}
    /\ packaged_fips_modules = {"lib/ossl-modules/fips.so"}

\* The position-independent-code arguments of a list, in their order.
pic_arguments(args) == SelectSeq(args, LAMBDA a : a \in {"-fPIC", "no-pic"})

\* C18: a position-independent-code argument is emitted only where the OS
\* has the notion, never for Windows, and only in the negative form
\* "no-pic", only when fPIC is present and false; when fPIC is true or
\* absent no such argument is emitted.
C18_OnlyTheNegativeForm ==
    pc = "build" =>
        /\ settings.os = "Windows" => pic_arguments(saved_args) = <<>>
        /\ positions(saved_args, "-fPIC") = {}
        /\ positions(saved_args, "no-pic") # {}
             => ("fPIC" \in DOMAIN options /\ options.fPIC = "False")

\* C18 as the code has it: for Windows no position-independent-code argument
\* is emitted; for every other OS exactly one is, "no-pic" when fPIC is
\* present and false, "-fPIC" when fPIC is true or absent (deleted because
\* shared is true).
C18_OnePicArgumentButForWindows ==
    pc = "build" =>
        pic_arguments(saved_args)
          = IF settings.os = "Windows" THEN <<>>
            ELSE IF "fPIC" \in DOMAIN options /\ options.fPIC = "False"
            THEN <<"no-pic">>
            ELSE <<"-fPIC">>

C18_Witness ==
    /\ pc = "build"
    /\ settings.os = "Linux"
    /\ options.shared = "True"
    /\ "fPIC" \notin DOMAIN options
    /\ pic_arguments(saved_args) = <<"-fPIC">>

\* C19: with zlib enabled (no_zlib false) the list holds exactly one
\* classifier, "zlib-dynamic" for a shared zlib and "zlib" otherwise, and
\* right after it --with-zlib-include="<first include dir>" and
\* --with-zlib-lib="<lib path>"; the lib path is <libdir>/<libname>.lib for
\* the target OS Windows and the lib directory otherwise, and on a Windows
\* build machine the backslashes of both paths are forward slashes.
C19_ZlibArguments ==
    (pc = "build" /\ options.no_zlib = "False") =>
        \A args \in {saved_args} :
        LET classifiers == positions(args, "zlib") \cup positions(args, "zlib-dynamic")
            windows_build == settings_build.os = "Windows"
            include_path == IF windows_build THEN "C:/z/include" ELSE "/z/include"
            lib_path == (IF windows_build THEN "C:/z/lib" ELSE "/z/lib")
                        \o (IF settings.os # "Windows" THEN ""
                            ELSE IF windows_build THEN "/zlib.lib" ELSE "/z.lib")
        IN  /\ Cardinality(classifiers) = 1
            /\ \A i \in classifiers :
                 /\ args[i] = (IF zlib_package.shared = "True"
                               THEN "zlib-dynamic" ELSE "zlib")
                 /\ Len(args) >= i + 2
                 /\ args[i + 1] = "--with-zlib-include=\"" \o include_path \o "\""
                 /\ args[i + 2] = "--with-zlib-lib=\"" \o lib_path \o "\""
            /\ Cardinality({i \in 1..Len(args) :
                              starts_at(args[i], 1, "--with-zlib-")}) = 2

C19_Witness ==
    /\ pc = "build"
    /\ settings.os = "Windows" /\ settings_build.os = "Windows"
    /\ zlib_package.libdirs = <<"C:\\z\\lib">>
    /\ zlib_package.shared = "True"
    /\ \E i \in 1..(Len(saved_args) - 2) :
          /\ saved_args[i] = "zlib-dynamic"
          /\ saved_args[i + 1] = "--with-zlib-include=\"C:/z/include\""
          /\ saved_args[i + 2] = "--with-zlib-lib=\"C:/z/lib/zlib.lib\""

\* The error of a dependency that the graph does not hold.
zlib_is_missing == starts_at(error, 1, "KeyError: 'zlib'")

\* C20: with zlib enabled (no_zlib false) and no zlib in the dependency
\* graph, the assembly of the arguments fails with an error that names zlib
\* and gives no list, so no build record is written; requirements() declares
\* zlib exactly when no_zlib is false; and with no_zlib true nothing reads
\* the dependency, neither the assembly nor the target configuration nor
\* package_info, which names zlib::zlib exactly when no_zlib is false.
C20_ZlibOnlyWhenEnabled ==
    /\ (generate_ran /\ options.no_zlib = "False" /\ zlib_package = NoPackage)
         => /\ pc = "failed"
            /\ zlib_is_missing
            /\ BuildJson \notin DOMAIN generators_folder
            /\ Conf20 \notin DOMAIN source_folder
    /\ pc \in {"validate", "generate", "build", "package", "package_info", "done", "failed"}
         => ("zlib/1.2.11" \in requires <=> options.no_zlib = "False")
    /\ (pc # "not_run" /\ options.no_zlib = "True") => ~zlib_is_missing
    /\ pc = "done"
         => cpp_info.crypto.requires
              = IF options.no_zlib = "False" THEN <<"zlib::zlib">> ELSE <<>>

C20_Witness ==
    /\ pc = "failed"
    /\ options.no_zlib = "False"
    /\ "zlib/1.2.11" \in requires
    /\ zlib_package = NoPackage
    /\ error = "KeyError: 'zlib'"
    /\ generators_folder = <<>>

-----------------------------------------------------------------------------
(* The external tools *)

\* The step a command line belongs to.
step_of(command) ==
    IF occurs_in(command, " ./Configure ") THEN "configure"
    ELSE IF occurs_in(command, " install_sw") THEN "install"
    ELSE "make"

\* The exception of a tool that exited with an error.
tool_failed == starts_at(error, 1, "ConanException: Error 1 while executing ")

\* C23: a failing tool ends the build, and nothing is run again.  The
\* commands are Configure, then make, then the install, each at most once;
\* the command that exits with an error is the last one: after it no make
\* and no install is run and the package folder is not put in order; and a
\* build that has failed takes no further step.
C23_ToolFailuresAreTerminal ==
    /\ [](/\ Len(commands) <= 3
          /\ \A i \in 1..Len(commands) :
                step_of(commands[i]) = <<"configure", "make", "install">>[i]
          /\ (pc \in {"failed", "package", "package_info", "done"} /\ tool_failed)
                => /\ pc = "failed"
                   /\ commands # <<>>
                   /\ error = "ConanException: Error 1 while executing "
                                \o commands[Len(commands)]
                   /\ Len(commands) < 3 => package_folder = {}
                   /\ \A f \in package_folder : starts_at(f, 1, "licenses/")
          /\ pc \in {"package", "package_info", "done"} => ~tool_failed)
    /\ [][pc = "failed" => FALSE]_vars

C23_Witness ==
    /\ pc = "failed"
    /\ Len(commands) = 2
    /\ step_of(commands[2]) = "make"
    /\ error = "ConanException: Error 1 while executing make -j1"
    /\ package_folder = {}

-----------------------------------------------------------------------------
(* The package *)

\* The files that stand in lib itself.
files_in_lib == {f \in package_folder :
                    starts_at(f, 1, "lib/") /\ ~occurs_in(SubSeq(f, 5, Len(f)), "/")}

\* C26: when package() has completed, no file *.pdb is left anywhere in the
\* package folder, there is no directory lib/pkgconfig (nmake installs none,
\* which is no error), and with shared true no file of lib ends in ".a" but,
\* for MinGW, the files that end in ".dll.a".
C26_PackageIsCleaned ==
    pc \in {"package_info", "done"} =>
        /\ \A f \in package_folder :
              /\ ~endswith(f, ".pdb")
              /\ ~starts_at(f, 1, "lib/pkgconfig/")
        /\ options.shared = "True" =>
              \A f \in files_in_lib :
                 endswith(f, ".a") =>
                    /\ settings.os = "Windows" /\ settings.compiler = "gcc"
                    /\ endswith(f, ".dll.a")

C26_Witness ==
    /\ pc = "done"
    /\ options.shared = "True"
    /\ settings.os = "Windows" /\ settings.compiler = "gcc"
    /\ "lib/libssl.dll.a" \in package_folder
    /\ "lib/libssl.a" \notin package_folder
    /\ "bin/libssl-3-x64.dll" \in package_folder

\* C27: the libraries package_info() declares are the files package() leaves
\* in lib.  With nmake (a Microsoft compiler, or clang for Windows) and the
\* build type Debug the files are libssld.lib and libcryptod.lib and the
\* libraries are declared as libssld and libcryptod; with nmake otherwise
\* they are libssl.lib and libcrypto.lib, declared as libssl and libcrypto;
\* for every other build ssl and crypto are declared and lib holds files
\* libssl.* and libcrypto.* only.
C27_DeclaredLibsAreThePackagedFiles ==
    pc = "done" =>
        LET nmake == \/ settings.compiler \in {"Visual Studio", "msvc"}
                     \/ settings.compiler = "clang" /\ settings.os = "Windows"
            d == IF settings.build_type = "Debug" THEN "d" ELSE ""
            ssl == cpp_info.ssl.libs
            crypto == cpp_info.crypto.libs
        IN  IF nmake
            THEN /\ ssl = <<"libssl" \o d>> /\ crypto = <<"libcrypto" \o d>>
                 /\ files_in_lib = {"lib/libssl" \o d \o ".lib",
                                    "lib/libcrypto" \o d \o ".lib"}
            ELSE /\ ssl = <<"ssl">> /\ crypto = <<"crypto">>
                 /\ \E f \in files_in_lib : starts_at(f, 1, "lib/libssl.")
                 /\ \E f \in files_in_lib : starts_at(f, 1, "lib/libcrypto.")
                 /\ \A f \in files_in_lib : \/ starts_at(f, 1, "lib/libssl.")
                                            \/ starts_at(f, 1, "lib/libcrypto.")

C27_Witness ==
    /\ pc = "done"
    /\ settings.compiler = "msvc" /\ settings.build_type = "Debug"
    /\ cpp_info.ssl.libs = <<"libssld">>
    /\ cpp_info.crypto.libs = <<"libcryptod">>
    /\ {"lib/libssld.lib", "lib/libcryptod.lib"} \subseteq package_folder
    /\ "lib/libssl.lib" \notin package_folder

-----------------------------------------------------------------------------
(* The interpreter *)

\* C29: on a Windows build machine without a bash, generate() enforces
\* Strawberry Perl: with strawberryperl among the dependencies the
\* interpreter of the build record, which is also the PERL of the
\* environment, is perl.exe of the bin directory of strawberryperl and not
\* the bare "perl"; in every other case it is "perl".
\* (The recipe looks for the name among the (requirement, package) pairs of
\* dependencies.items(), where no name stands.)
C29_StrawberryPerlIsEnforced ==
    (pc = "build") =>
        \A perl \in {json_loads(generators_folder[BuildJson]).perl_exe} :
           /\ generators_folder["conanopensslbuild"].PERL = perl
           /\ perl = IF /\ settings_build.os = "Windows"
                        /\ ~win_bash
                        /\ "strawberryperl" \in DOMAIN dependencies
                     THEN "C:\\strawberry\\perl\\bin\\perl.exe"
                     ELSE "perl"

-----------------------------------------------------------------------------
(* The test package *)

\* C25: the test package of openssl that has run its test has run
\* "openssl version" exactly when the package was built with no_stdio false:
\* what generate() saves in custom.json and test() reads back has the truth
\* value of the option.
C25_VersionIsRunUnlessNoStdio ==
    test_package.pc = "done" =>
        /\ py_bool(custom_json_loads_no_stdio(
                       test_package.generators_folder["custom.json"]))
             = truthy(options.no_stdio)
        /\ (\E i \in 1..Len(test_package.commands) :
                test_package.commands[i] = "openssl version")
             = ~truthy(options.no_stdio)

-----------------------------------------------------------------------------
(* The gtest recipe *)

\* The states of the gtest recipe that validate() has let through.
gtest_validated ==
    gtest.pc \in {"source", "generate", "build", "package", "package_info", "done"}

\* shared with a Microsoft compiler and a static runtime.
gtest_shared_with_static_runtime ==
    /\ gtest.options.shared = "True"
    /\ \/ /\ gtest.settings.compiler = "Visual Studio"
          /\ gtest.settings.runtime \in {"MT", "MTd"}
       \/ /\ gtest.settings.compiler = "msvc"
          /\ gtest.settings.runtime = "static"

\* The error of validate() for shared with a static runtime.
gtest_static_runtime_error ==
    "ConanInvalidConfiguration: gtest:shared=True with compiler=\"Visual Studio\" "
    \o "is not compatible with compiler.runtime=MT/MTd"

\* C22: validate() of gtest raises the invalid-configuration error for shared
\* with "Visual Studio" or "msvc" and a runtime MT or MTd, before any command
\* is run, and lets no such build through; it does not raise that error for
\* a runtime MD or MDd nor for shared false.
C22_SharedWithStaticRuntimeIsRefused ==
    /\ [](/\ gtest.error = gtest_static_runtime_error =>
               /\ gtest_shared_with_static_runtime
               /\ gtest.pc = "failed"
               /\ gtest.commands = <<>>
          /\ gtest_validated => ~gtest_shared_with_static_runtime)
    /\ [][gtest.pc = "validate" /\ gtest_shared_with_static_runtime
            => gtest'.error = gtest_static_runtime_error]_vars

C22_Witness ==
    /\ gtest.pc = "failed"
    /\ gtest.error = gtest_static_runtime_error
    /\ gtest.settings.compiler = "msvc"
    /\ gtest.settings.runtime_type = "Debug"

\* C24: once package() and package_info() of gtest have run, the property
\* license_path of its cpp_info is the path of a file of the package.
C24_LicensePathIsExposed ==
    gtest.pc = "done" =>
        /\ gtest_get_property("license_path") # None
        /\ gtest_get_property("license_path") \in gtest.package_folder

\* The components of the versions of the compilers and of the minimum
\* versions, as numbers.
version_components ==
    ("12" :> <<12>>) @@ ("14" :> <<14>>) @@ ("15" :> <<15>>) @@ ("16" :> <<16>>)
    @@ ("191" :> <<191>>) @@ ("193" :> <<193>>) @@ ("19" :> <<19>>)
    @@ ("4.8" :> <<4, 8>>) @@ ("4.9" :> <<4, 9>>) @@ ("5" :> <<5>>)
    @@ ("5.1" :> <<5, 1>>) @@ ("3.3" :> <<3, 3>>) @@ ("4.0.1" :> <<4, 0, 1>>)
    @@ ("9.0" :> <<9, 0>>) @@ ("9.1" :> <<9, 1>>) @@ ("4.8.1" :> <<4, 8, 1>>)
    @@ ("5.0" :> <<5, 0>>)

\* A version is older than a minimum: at the first of the components both
\* have where they differ, the version has the smaller number.
older_than(v, minimum) ==
    LET a == version_components[v]
        b == version_components[minimum]
    IN  \E i \in 1..Len(a) :
           /\ i <= Len(b)
           /\ a[i] < b[i]
           /\ \A j \in 1..(i - 1) : a[j] = b[j]

\* The compiler of the gtest build is in the table of the minimum versions
\* and older than its minimum.
gtest_compiler_too_old ==
    LET table == gtest_minimum_compilers_version(gtest.version) IN
    /\ gtest.settings.compiler \in DOMAIN table
    /\ older_than(gtest.settings.compiler_version, table[gtest.settings.compiler])

\* C30: validate() of gtest lets no compiler through that is in the table of
\* the recipe version and older than its minimum over the components both
\* versions have, and raises the error of that check for such compilers only:
\* gcc 4.9 is older than 5, gcc 5 and 5.1 are not, gcc 4.8 is not older than
\* 4.8.1, and a compiler that is not in the table is never refused by it.
C30_OlderCompilersAreRefused ==
    /\ loose_lt_semver("4.9", "5")
    /\ ~loose_lt_semver("5", "5")
    /\ ~loose_lt_semver("5.1", "5")
    /\ ~loose_lt_semver("4.8", "4.8.1")
    /\ gtest_validated => ~gtest_compiler_too_old
    /\ (gtest.pc = "failed" /\ starts_at(gtest.error, 1,
                                  "ConanInvalidConfiguration: gtest requires "))
          => /\ gtest_compiler_too_old
             /\ gtest.error
                  = "ConanInvalidConfiguration: gtest requires "
                    \o gtest.settings.compiler \o " "
                    \o gtest_minimum_compilers_version(gtest.version)[
                           gtest.settings.compiler]
                    \o ". The current compiler is " \o gtest.settings.compiler
                    \o " " \o gtest.settings.compiler_version \o "."

C30_Witness ==
    /\ gtest.pc = "failed"
    /\ gtest.version = "1.12.1"
    /\ gtest.settings.compiler = "gcc"
    /\ gtest.settings.compiler_version = "4.9"
    /\ gtest.error = "ConanInvalidConfiguration: gtest requires gcc 5. "
                     \o "The current compiler is gcc 4.9."

-----------------------------------------------------------------------------
(* The tk recipe *)

\* The commands of the tk build that call nmake.
tk_nmake_commands == SelectSeq(tk.commands, LAMBDA c : starts_at(c, 1, "nmake "))

\* C28: in the tk recipe the build record holds nmake_args once generate()
\* has returned exactly when the compiler is "Visual Studio"; build() and
\* package() read it exactly then and never find it missing; the nmake
\* commands of the two, "release" and "install", carry the one text that
\* generate() has computed.
C28_NmakeArgsAreWrittenThenRead ==
    /\ tk.error # "KeyError: 'nmake_args'"
    /\ tk.pc \in {"build", "package", "done"} =>
         ("nmake_args" \in DOMAIN tk.build_json)
           = (tk.settings.compiler = "Visual Studio")
    /\ (tk.pc # "not_run" /\ tk.commands # <<>>) =>
         IF tk.settings.compiler = "Visual Studio"
         THEN /\ tk.build_json.nmake_args = _generate_nmake_command
              /\ tk_nmake_commands = tk.commands
              /\ tk.commands[1]
                   = "nmake " \o tk.build_json.nmake_args \o " release"
              /\ Len(tk.commands) <= 2
              /\ Len(tk.commands) = 2 =>
                   tk.commands[2]
                     = "nmake " \o tk.build_json.nmake_args \o " install"
         ELSE tk_nmake_commands = <<>>
    /\ (tk.pc = "done" /\ tk.settings.compiler = "Visual Studio") =>
         Len(tk.commands) = 2

C28_Witness ==
    /\ tk.pc = "done"
    /\ tk.settings.compiler = "Visual Studio"
    /\ tk.settings.runtime = "MD"
    /\ tk.settings.build_type = "Release"
    /\ tk.commands
         = <<"nmake " \o tk.build_json.nmake_args \o " release",
             "nmake " \o tk.build_json.nmake_args \o " install">>
    /\ occurs_in(tk.build_json.nmake_args, " OPTS=static,msvcrt,unchecked ")
    /\ occurs_in(tk.build_json.nmake_args, "TCLSTUBLIB=\"C:\\tcl\\lib\\tclstub86.lib\"")

-----------------------------------------------------------------------------
(* The options shared and fPIC *)

\* fPIC is among the options exactly when the os is not Windows and shared is
\* false.
fPIC_iff_static_off_windows(os, opts) ==
    ("fPIC" \in DOMAIN opts) = (os # "Windows" /\ opts.shared \in {"False"})

\* C21: in the openssl, gtest, libxcrypt and tk recipes, once config_options()
\* and configure() have returned, fPIC is an option exactly when the os is not
\* Windows and shared is false.
C21_fPICOnlyForStaticOffWindows ==
    /\ pc \in {"requirements", "build_requirements", "validate", "generate",
               "build", "package", "package_info", "done"} =>
         fPIC_iff_static_off_windows(settings.os, options)
    /\ gtest.pc \in {"validate", "source", "generate", "build", "package",
                     "package_info", "done"} =>
         fPIC_iff_static_off_windows(gtest.settings.os, gtest.options)
    /\ libxcrypt.pc \in {"generate", "build"} =>
         fPIC_iff_static_off_windows(libxcrypt.settings.os, libxcrypt.options)
    /\ tk.pc \in {"validate", "generate", "build", "package", "done"} =>
         fPIC_iff_static_off_windows(tk.settings.os, tk.options)

C21_Witness ==
    /\ tk.pc = "validate"
    /\ tk.settings.os = "Windows"
    /\ tk.options = [shared |-> "True"]
====
